---- MODULE Spec2Model ----
(***************************************************************************)
(* Reachability queries over labeled directed multigraphs: the boolean-     *)
(* matrix automaton bundle (project/boolean_matrix.py), the RPQ solvers    *)
(* (project/rpq.py) and the CFPQ solvers (project/cfpq.py).                *)
(*                                                                         *)
(* A sparse matrix is modelled by the set of its nonzero cells <<i, j>>;   *)
(* the accumulator of get_transitive_closure, whose numeric values are     *)
(* observable, is a function from cells to naturals.                       *)
(***************************************************************************)
EXTENDS Integers, Sequences, FiniteSets, TLC

VARIABLES graph, query, cfg, ord, op, args, result

vars == <<graph, query, cfg, ord, op, args, result>>

(***************************************************************************)
(* Bounds of the model.                                                    *)
(***************************************************************************)
MaxNodes == 2
MaxEdges == 2

(* edges of a graph that is passed to several calls *)
MaxReuseEdges == 1

(* path counts of the closure are capped here *)
SatCap == 10000

(* The value None of an optional node set (start_nodes=None). *)
None == {-1}

(* pyformlang's Epsilon() symbol. *)
Epsilon == "$eps"

RpqLabels == {"a", "b"}

(* Iteration orders of a Python set of states: the order in which          *)
(* enumerate(nfa.states) hands out the dense indices.                      *)
Orders == {"asc", "desc"}

(***************************************************************************)
(* Generic helpers.                                                        *)
(***************************************************************************)
RECURSIVE KSubsets(_, _)
KSubsets(E, k) ==
    IF k = 0 THEN {{}}
    ELSE LET P == KSubsets(E, k - 1)
         IN  P \cup {p \cup {e} : p \in P, e \in E}

Min(x, y) == IF x < y THEN x ELSE y

(* The function f with every value computed (TLC keeps a function          *)
(* constructor unevaluated until it is combined with another function).    *)
Eval(f) == f @@ <<>>

(***************************************************************************)
(* networkx.MultiDiGraph: nodes, labeled edges and the node attributes     *)
(* is_start / is_final that cfpq writes.  Parallel edges with the same     *)
(* label are indistinguishable to every solver, so edges form a set.       *)
(***************************************************************************)
MkGraph(n, es) ==
    [nodes |-> 0 .. (n - 1), edges |-> es, is_start |-> {}, is_final |-> {}]

GraphsUpTo(labels, max_nodes, max_edges) ==
    UNION { { MkGraph(n, es) :
                es \in KSubsets((0 .. (n - 1)) \X labels \X (0 .. (n - 1)), max_edges) } :
            n \in 0 .. max_nodes }

NodeSets(g) == {None} \cup SUBSET g.nodes

(***************************************************************************)
(* pyformlang EpsilonNFA: states, input symbols (Epsilon is never an input *)
(* symbol), start and final states, transitions <<p, s, q>>.               *)
(***************************************************************************)
MkNFA(sts, trs, starts, finals) ==
    [states        |-> sts \cup {t[1] : t \in trs} \cup {t[3] : t \in trs}
                           \cup starts \cup finals,
     symbols       |-> {t[2] : t \in trs} \ {Epsilon},
     start_states  |-> starts,
     final_states  |-> finals,
     transitions   |-> trs]

(* the value None of an edge label (label=None) *)
NullLabel == "<None>"

(* graph_to_epsilon_nfa with "Epsilon() if label is None": an empty label  *)
(* stays a symbol                                                          *)
graph_to_epsilon_nfa_is_none(g, start_states, final_states) ==
    LET trs    == { <<e[1], IF e[2] = NullLabel THEN Epsilon ELSE e[2], e[3]>> : e \in g.edges }
        starts == IF start_states = None THEN g.nodes ELSE start_states
        finals == IF final_states = None THEN g.nodes ELSE final_states
    IN  MkNFA({}, trs, starts, finals)

(* graph_to_epsilon_nfa with "if not start_states": an empty set is taken *)
(* for an absent one                                                      *)
graph_to_epsilon_nfa_falsy(g, start_states, final_states) ==
    LET trs    == { <<e[1], IF e[2] = "" \/ e[2] = NullLabel THEN Epsilon ELSE e[2], e[3]>> : e \in g.edges }
        starts == IF start_states = None \/ start_states = {} THEN g.nodes ELSE start_states
        finals == IF final_states = None \/ final_states = {} THEN g.nodes ELSE final_states
    IN  MkNFA({}, trs, starts, finals)

(* automata_utils.graph_to_epsilon_nfa *)
graph_to_epsilon_nfa(g, start_states, final_states) ==
    LET trs    == { <<e[1], IF e[2] = "" \/ e[2] = NullLabel THEN Epsilon ELSE e[2], e[3]>> : e \in g.edges }
        starts == IF start_states = None THEN g.nodes ELSE start_states
        finals == IF final_states = None THEN g.nodes ELSE final_states
    IN  MkNFA({}, trs, starts, finals)

(***************************************************************************)
(* automata_utils.generate_min_dfa_by_regex: the minimal DFA that the      *)
(* regex front-end returns (partial: no trap state).  A query is a Regex   *)
(* object, named here by its text in the syntax of pyformlang ("a b" is    *)
(* the concatenation, "$" the empty word).  States are 0..m-1, state 0 is  *)
(* the start state.                                                        *)
(***************************************************************************)
MkDFA(m, trs, finals) == MkNFA(0 .. (m - 1), trs, {0}, finals)

generate_min_dfa_by_regex(regex) ==
    CASE regex = "a"      -> MkDFA(2, {<<0, "a", 1>>}, {1})
      [] regex = "a*"     -> MkDFA(1, {<<0, "a", 0>>}, {0})
      [] regex = "a b"    -> MkDFA(3, {<<0, "a", 1>>, <<1, "b", 2>>}, {2})
      [] regex = "a*|b"   -> MkDFA(3, {<<0, "a", 1>>, <<1, "a", 1>>, <<0, "b", 2>>}, {0, 1, 2})
      [] regex = "(a|b)*" -> MkDFA(1, {<<0, "a", 0>>, <<0, "b", 0>>}, {0})
      [] regex = "a b*"   -> MkDFA(2, {<<0, "a", 1>>, <<1, "b", 1>>}, {1})
      [] regex = "(a b)*" -> MkDFA(2, {<<0, "a", 1>>, <<1, "b", 0>>}, {0})
      [] regex = "$"      -> MkDFA(1, {}, {0})

Regexes == {"a", "a*", "a b", "a*|b", "(a|b)*", "a b*", "(a b)*", "$"}

(***************************************************************************)
(* BooleanMatrix: state_to_index, start_states, final_states and           *)
(* bool_matrices (a dict: label -> matrix).                                *)
(***************************************************************************)
BooleanMatrix(state_to_index, start_states, final_states, bool_matrices) ==
    [state_to_index |-> state_to_index,
     start_states   |-> start_states,
     final_states   |-> final_states,
     bool_matrices  |-> bool_matrices]

Size(bm) == Cardinality(DOMAIN bm.state_to_index)

(* enumerate(nfa.states): dense indices in the iteration order o of the set *)
EnumerateStates(sts, o) ==
    [s \in sts |->
        IF o = "asc" THEN Cardinality({t \in sts : t < s})
                     ELSE Cardinality({t \in sts : t > s})]

(* _create_boolean_matrix_from_nfa with dok_mtx[index of state_to, index   *)
(* of state_from]: the matrix transposed                                   *)
create_boolean_matrix_from_nfa_transposed(nfa, state_to_index) ==
    [label \in nfa.symbols |->
        { <<state_to_index[t[3]], state_to_index[t[1]]>> :
              t \in {tr \in nfa.transitions : tr[2] = label} }]

(* BooleanMatrix._create_boolean_matrix_from_nfa *)
create_boolean_matrix_from_nfa(nfa, state_to_index) ==
    [label \in nfa.symbols |->
        { <<state_to_index[t[1]], state_to_index[t[3]]>> :
              t \in {tr \in nfa.transitions : tr[2] = label} }]

(* BooleanMatrix.from_nfa *)
from_nfa(nfa, o) ==
    LET state_to_index == EnumerateStates(nfa.states, o)
    IN  BooleanMatrix(state_to_index, nfa.start_states, nfa.final_states,
                      create_boolean_matrix_from_nfa(nfa, state_to_index))

(* BooleanMatrix.to_nfa: "dok_matrix.toarray()" calls the method on the    *)
(* class, without a matrix, in the first pass of the loop over the         *)
(* matrices; with no matrix the loop is not entered                        *)
to_nfa(bm) ==
    IF DOMAIN bm.bool_matrices # {}
    THEN [status |-> "TypeError", value |-> {}]
    ELSE [status |-> "ok", value |-> MkNFA({}, {}, bm.start_states, bm.final_states)]

(* a @ b for two boolean matrices *)
MatMul(a, b) ==
    UNION { { <<ca[1], cb[2]>> : cb \in {c \in b : c[1] = ca[2]} } : ca \in a }

(* scipy.sparse.kron of two boolean matrices, nb = number of rows of b *)
kron(a, b, nb) ==
    { <<ca[1] * nb + cb[1], ca[2] * nb + cb[2]>> : ca \in a, cb \in b }

(* BooleanMatrix.__and__ with idx = self_idx * len(self.state_to_index) +   *)
(* other_idx: the row stride is the size of the wrong operand              *)
And_self_stride(self, other) ==
    LET inter_labels == (DOMAIN self.bool_matrices) \cap (DOMAIN other.bool_matrices)
        nb == Size(other)
        pairs == (DOMAIN self.state_to_index) \X (DOMAIN other.state_to_index)
    IN  BooleanMatrix(
            [st \in pairs |->
                self.state_to_index[st[1]] * Size(self) + other.state_to_index[st[2]]],
            {st \in pairs : st[1] \in self.start_states /\ st[2] \in other.start_states},
            {st \in pairs : st[1] \in self.final_states /\ st[2] \in other.final_states},
            [label \in inter_labels |->
                kron(self.bool_matrices[label], other.bool_matrices[label], nb)])

(* BooleanMatrix.__and__ with kron(other, self): operands swapped *)
And_swapped(self, other) ==
    LET inter_labels == (DOMAIN self.bool_matrices) \cap (DOMAIN other.bool_matrices)
        nb == Size(other)
        pairs == (DOMAIN self.state_to_index) \X (DOMAIN other.state_to_index)
    IN  BooleanMatrix(
            [st \in pairs |-> self.state_to_index[st[1]] * nb + other.state_to_index[st[2]]],
            {st \in pairs : st[1] \in self.start_states /\ st[2] \in other.start_states},
            {st \in pairs : st[1] \in self.final_states /\ st[2] \in other.final_states},
            [label \in inter_labels |->
                kron(other.bool_matrices[label], self.bool_matrices[label], Size(self))])

(* BooleanMatrix.__and__ *)
And(self, other) ==
    LET inter_labels == (DOMAIN self.bool_matrices) \cap (DOMAIN other.bool_matrices)
        nb == Size(other)
        pairs == (DOMAIN self.state_to_index) \X (DOMAIN other.state_to_index)
    IN  BooleanMatrix(
            [st \in pairs |-> self.state_to_index[st[1]] * nb + other.state_to_index[st[2]]],
            {st \in pairs : st[1] \in self.start_states /\ st[2] \in other.start_states},
            {st \in pairs : st[1] \in self.final_states /\ st[2] \in other.final_states},
            [label \in inter_labels |->
                kron(self.bool_matrices[label], other.bool_matrices[label], nb)])

(***************************************************************************)
(* BooleanMatrix.get_transitive_closure.  The accumulator is a float64     *)
(* dok_matrix: a dict from the nonzero cells to their values.  Its entries *)
(* only grow and saturate, which SatCap models.                            *)
(***************************************************************************)
RECURSIVE SumOver(_, _, _)
SumOver(f, S, acc) ==
    IF S = {} THEN acc
    ELSE LET x == CHOOSE y \in S : TRUE
         IN  SumOver(f, S \ {x}, Min(SatCap, acc + f[x]))

(* sum(self.bool_matrices.values(), start=dok_matrix((n, n))) *)
MatSum(bm) ==
    Eval([c \in UNION { bm.bool_matrices[l] : l \in DOMAIN bm.bool_matrices } |->
            Cardinality({l \in DOMAIN bm.bool_matrices : c \in bm.bool_matrices[l]})])

nonzero(M) == DOMAIN M

nnz(M) == Cardinality(nonzero(M))

(* transitive_closure += transitive_closure @ transitive_closure *)
MatStep(M) ==
    LET cells == DOMAIN M
        mids(c) == { k[2] : k \in {d \in cells : d[1] = c[1] /\ <<d[2], c[2]>> \in cells} }
    IN  Eval([c \in cells \cup MatMul(cells, cells) |->
                SumOver([k \in mids(c) |-> Min(SatCap, M[<<c[1], k>>] * M[<<k, c[2]>>])],
                        mids(c),
                        IF c \in cells THEN M[c] ELSE 0)])

RECURSIVE ClosureLoop(_, _, _)
ClosureLoop(M, prev_nnz, cur_nnz) ==
    IF prev_nnz = cur_nnz THEN M
    ELSE LET M2 == MatStep(M)
         IN  ClosureLoop(M2, cur_nnz, nnz(M2))

(* get_transitive_closure with prev_nnz set to cur_nnz before the loop:    *)
(* the loop is not entered and the sum is returned                         *)
get_transitive_closure_prev_init(bm) == MatSum(bm)

(* get_transitive_closure with the loop body run once, not to the fixed    *)
(* point                                                                   *)
get_transitive_closure_one_step(bm) ==
    LET transitive_closure == MatSum(bm)
    IN  IF nnz(transitive_closure) = 0 THEN transitive_closure
        ELSE MatStep(transitive_closure)

(* get_transitive_closure over matrices of dtype bool: every cell is 0 or 1 *)
get_transitive_closure_bool(bm) ==
    LET transitive_closure == MatSum(bm)
        cur_nnz == nnz(transitive_closure)
        closed == IF cur_nnz = 0 THEN transitive_closure
                  ELSE ClosureLoop(transitive_closure, -1, cur_nnz)
    IN  Eval([c \in DOMAIN closed |-> 1])

(* get_transitive_closure started from the sum plus the identity: the     *)
(* reflexive closure                                                      *)
get_transitive_closure_reflexive(bm) ==
    LET sum == MatSum(bm)
        diag == { <<i, i>> : i \in 0 .. (Size(bm) - 1) }
        transitive_closure ==
            Eval([c \in (DOMAIN sum) \cup diag |->
                    (IF c \in DOMAIN sum THEN sum[c] ELSE 0) + (IF c \in diag THEN 1 ELSE 0)])
        cur_nnz == nnz(transitive_closure)
    IN  IF cur_nnz = 0 THEN transitive_closure
        ELSE ClosureLoop(transitive_closure, -1, cur_nnz)

(* BooleanMatrix.get_transitive_closure *)
get_transitive_closure(bm) ==
    LET transitive_closure == MatSum(bm)
        cur_nnz == nnz(transitive_closure)
    IN  IF cur_nnz = 0 THEN transitive_closure
        ELSE ClosureLoop(transitive_closure, -1, cur_nnz)

(***************************************************************************)
(* rpq.rpq_tensor                                                          *)
(***************************************************************************)
IndexToState(bm) ==
    [i \in {bm.state_to_index[s] : s \in DOMAIN bm.state_to_index} |->
        CHOOSE s \in DOMAIN bm.state_to_index : bm.state_to_index[s] = i]

rpq_tensor(g, regex, start_nodes, final_nodes, o) ==
    LET nfa_bool_mtx   == from_nfa(graph_to_epsilon_nfa(g, start_nodes, final_nodes), o)
        query_bool_mtx == from_nfa(generate_min_dfa_by_regex(regex), o)
        intersection_bool_mtx == And(nfa_bool_mtx, query_bool_mtx)
        idx_to_state   == IndexToState(intersection_bool_mtx)
        transitive_closure == get_transitive_closure(intersection_bool_mtx)
    IN  { <<idx_to_state[c[1]][1], idx_to_state[c[2]][1]>> :
            c \in { d \in nonzero(transitive_closure) :
                      /\ idx_to_state[d[1]] \in intersection_bool_mtx.start_states
                      /\ idx_to_state[d[2]] \in intersection_bool_mtx.final_states } }

(***************************************************************************)
(* BooleanMatrix._direct_sum: self's matrices in the upper-left block and  *)
(* other's in the lower-right block, for the labels both have.  The state  *)
(* map is the dict {**self.state_to_index, **shifted_states_indices}.      *)
(***************************************************************************)
direct_sum(self, other) ==
    LET n_self == Size(self)
        states_indices ==
            [s \in (DOMAIN self.state_to_index) \cup (DOMAIN other.state_to_index) |->
                IF s \in DOMAIN other.state_to_index
                THEN n_self + other.state_to_index[s]
                ELSE self.state_to_index[s]]
    IN  BooleanMatrix(
            states_indices,
            self.start_states \cup other.start_states,
            self.final_states \cup other.final_states,
            [label \in (DOMAIN self.bool_matrices) \cap (DOMAIN other.bool_matrices) |->
                self.bool_matrices[label]
                \cup { <<n_self + c[1], n_self + c[2]>> : c \in other.bool_matrices[label] }])

(* list(self.start_states): the start states in iteration order o *)
RECURSIVE OrderedList(_, _)
OrderedList(sts, o) ==
    IF sts = {} THEN <<>>
    ELSE LET x == CHOOSE y \in sts :
                      \A z \in sts : IF o = "asc" THEN y <= z ELSE y >= z
         IN  <<x>> \o OrderedList(sts \ {x}, o)

(* front_with_self_start in BooleanMatrix._init_sync_bfs_front *)
front_with_self_start(other, self_start_row) ==
    LET m == Size(other)
    IN  UNION { {<<other.state_to_index[state], other.state_to_index[state]>>}
                \cup { <<other.state_to_index[state], m + k>> : k \in self_start_row } :
                state \in other.start_states }

(* BooleanMatrix._init_sync_bfs_front *)
init_sync_bfs_front(self, other, reachable_per_node, ordered_start_states) ==
    LET m == Size(other)
    IN  IF ~reachable_per_node
        THEN front_with_self_start(other,
                 { self.state_to_index[ordered_start_states[k]] :
                       k \in 1 .. Len(ordered_start_states) })
        ELSE UNION { { <<(k - 1) * m + c[1], c[2]>> :
                         c \in front_with_self_start(other,
                                   {self.state_to_index[ordered_start_states[k]]}) } :
                     k \in 1 .. Len(ordered_start_states) }

(* the body of "for _, matrix in direct_sum.bool_matrices.items()" in      *)
(* sync_bfs: the new_front_step of one symbol matrix                       *)
new_front_step(front, matrix, other_states_num) ==
    LET product == MatMul(front, matrix)
        row(i)  == { c[2] : c \in {d \in product : d[1] = i /\ d[2] >= other_states_num} }
        moves   == { c \in product : c[2] < other_states_num /\ row(c[1]) # {} }
        row_shift(i) == (i \div other_states_num) * other_states_num
    IN  UNION { {<<row_shift(c[1]) + c[2], c[2]>>}
                \cup { <<row_shift(c[1]) + c[2], k>> : k \in row(c[1]) } : c \in moves }

(* the iteration without "if visited[i, j]: new_front[i, j] = 0": the      *)
(* front keeps the cells already visited                                   *)
bfs_iteration_keep_visited(front, visited, ds, other_states_num) ==
    front \cup UNION { new_front_step(front, ds.bool_matrices[l], other_states_num) :
                         l \in DOMAIN ds.bool_matrices }

(* one iteration of the "while True" loop of sync_bfs: the new front,      *)
(* with the cells already visited removed                                  *)
bfs_iteration(front, visited, ds, other_states_num) ==
    (front \cup UNION { new_front_step(front, ds.bool_matrices[l], other_states_num) :
                          l \in DOMAIN ds.bool_matrices })
    \ visited

RECURSIVE bfs_loop(_, _, _, _)
bfs_loop(front, visited, ds, other_states_num) ==
    LET new_front   == bfs_iteration(front, visited, ds, other_states_num)
        new_visited == visited \cup new_front
    IN  IF Cardinality(visited) = Cardinality(new_visited) THEN new_visited
        ELSE bfs_loop(new_front, new_visited, ds, other_states_num)

(* BooleanMatrix.sync_bfs: a set of nodes, or of pairs when reachable_per_node *)
sync_bfs(self, other, reachable_per_node, o) ==
    IF DOMAIN self.state_to_index = {} \/ DOMAIN other.state_to_index = {} THEN {}
    ELSE
    LET other_states_num     == Size(other)
        start_states_ordered == OrderedList(self.start_states, o)
        ds                   == direct_sum(other, self)
        init_front == init_sync_bfs_front(self, other, reachable_per_node, start_states_ordered)
        visited    == bfs_loop(init_front, init_front, ds, other_states_num)
        self_index_to_state  == IndexToState(self)
        other_index_to_state == IndexToState(other)
        hits == { c \in visited \ init_front :
                    /\ other_index_to_state[c[1] % other_states_num] \in other.final_states
                    /\ c[2] >= other_states_num
                    /\ self_index_to_state[c[2] - other_states_num] \in self.final_states }
    IN  IF ~reachable_per_node
        THEN { self_index_to_state[c[2] - other_states_num] : c \in hits }
        ELSE { <<start_states_ordered[(c[1] \div other_states_num) + 1],
                 self_index_to_state[c[2] - other_states_num]>> : c \in hits }

(* rpq.rpq_bfs; mode is RpqMode *)
FIND_ALL_REACHABLE == "FIND_ALL_REACHABLE"
FIND_REACHABLE_FOR_EACH_START_NODE == "FIND_REACHABLE_FOR_EACH_START_NODE"
RpqMode == {FIND_ALL_REACHABLE, FIND_REACHABLE_FOR_EACH_START_NODE}

rpq_bfs(g, regex, mode, start_states, final_states, o) ==
    LET nfa_bool_mtx   == from_nfa(graph_to_epsilon_nfa(g, start_states, final_states), o)
        query_bool_mtx == from_nfa(generate_min_dfa_by_regex(regex), o)
    IN  sync_bfs(nfa_bool_mtx, query_bool_mtx, mode = FIND_REACHABLE_FOR_EACH_START_NODE, o)

(***************************************************************************)
(* pyformlang CFG: variables, terminals, start symbol and productions      *)
(* <<head, body>>, body a tuple of symbols.  CFG(...) adds the start       *)
(* symbol and the symbols of the productions to its variables and          *)
(* terminals.                                                              *)
(***************************************************************************)
BodySymbols(prods) == UNION { {p[2][k] : k \in 1 .. Len(p[2])} : p \in prods }

CFG(variables, terminals, start_symbol, productions) ==
    [variables    |-> variables \cup {start_symbol} \cup {p[1] : p \in productions}
                          \cup (BodySymbols(productions) \ terminals),
     terminals    |-> terminals,
     start_symbol |-> start_symbol,
     productions  |-> productions]

BodyIn(p, syms) == \A k \in 1 .. Len(p[2]) : p[2][k] \in syms

(* CFG.get_generating_symbols *)
RECURSIVE GeneratingFrom(_, _)
GeneratingFrom(c, gen) ==
    LET gen2 == gen \cup { p[1] : p \in {q \in c.productions : BodyIn(q, gen)} }
    IN  IF gen2 = gen THEN gen ELSE GeneratingFrom(c, gen2)

get_generating_symbols(c) == GeneratingFrom(c, c.terminals)

(* CFG.get_reachable_symbols *)
RECURSIVE ReachableFrom(_, _)
ReachableFrom(c, reach) ==
    LET reach2 == reach \cup BodySymbols({p \in c.productions : p[1] \in reach})
    IN  IF reach2 = reach THEN reach ELSE ReachableFrom(c, reach2)

get_reachable_symbols(c) == ReachableFrom(c, {c.start_symbol})

(* CFG.get_nullable_symbols *)
RECURSIVE NullableFrom(_, _)
NullableFrom(c, nul) ==
    LET nul2 == nul \cup { p[1] : p \in {q \in c.productions : BodyIn(q, nul)} }
    IN  IF nul2 = nul THEN nul ELSE NullableFrom(c, nul2)

get_nullable_symbols(c) == NullableFrom(c, {})

(* CFG.remove_useless_symbols *)
remove_useless_symbols(c) ==
    LET generating  == get_generating_symbols(c)
        productions == { p \in c.productions : p[1] \in generating /\ BodyIn(p, generating) }
        cfg_temp    == CFG(c.variables \cap generating, c.terminals \cap generating,
                           c.start_symbol, productions)
        reachables  == get_reachable_symbols(cfg_temp)
    IN  CFG((c.variables \cap generating) \cap reachables,
            (c.terminals \cap generating) \cap reachables,
            c.start_symbol,
            { p \in productions : p[1] \in reachables })

IsUnit(c, p) == Len(p[2]) = 1 /\ p[2][1] \in c.variables

(* CFG.get_unit_pairs *)
RECURSIVE UnitPairsFrom(_, _)
UnitPairsFrom(c, pairs) ==
    LET pairs2 == pairs \cup
                  { <<pr[1], p[2][1]>> :
                      <<pr, p>> \in { x \in pairs \X {q \in c.productions : IsUnit(c, q)} :
                                        x[1][2] = x[2][1] } }
    IN  IF pairs2 = pairs THEN pairs ELSE UnitPairsFrom(c, pairs2)

get_unit_pairs(c) == UnitPairsFrom(c, { <<v, v>> : v \in c.variables })

(* CFG.eliminate_unit_productions *)
eliminate_unit_productions(c) ==
    LET productions == { p \in c.productions : ~IsUnit(c, p) }
    IN  CFG(c.variables, c.terminals, c.start_symbol,
            productions \cup
            { <<x[1][1], x[2][2]>> :
                x \in { y \in get_unit_pairs(c) \X productions : y[1][2] = y[2][1] } })

(* CFG._get_productions_with_only_single_terminals: in a body of two or    *)
(* more symbols (or none) every terminal t becomes the variable t#CNF#     *)
CnfVar(t) == t \o "#CNF#"

get_productions_with_only_single_terminals(c) ==
    LET long == { p \in c.productions : Len(p[2]) # 1 }
        used == BodySymbols(long) \cap c.terminals
    IN  { p \in c.productions : Len(p[2]) = 1 }
        \cup { <<p[1], [k \in 1 .. Len(p[2]) |->
                          IF p[2][k] \in c.terminals THEN CnfVar(p[2][k]) ELSE p[2][k]]>> :
                 p \in long }
        \cup { <<CnfVar(t), <<t>>>> : t \in used }

(* CFG._decompose_productions: a body X1 .. Xk, k > 2, becomes             *)
(* head -> X1 C, C -> X2 C', ..., one fresh variable per distinct suffix   *)
RECURSIVE Join(_)
Join(body) == IF body = <<>> THEN "" ELSE body[1] \o "." \o Join(Tail(body))

SuffixVar(body) == "C#CNF#" \o Join(body)

RECURSIVE DecomposeOne(_, _)
DecomposeOne(head, body) ==
    IF Len(body) <= 2 THEN {<<head, body>>}
    ELSE {<<head, <<body[1], SuffixVar(Tail(body))>>>>}
         \cup DecomposeOne(SuffixVar(Tail(body)), Tail(body))

decompose_productions(prods) == UNION { DecomposeOne(p[1], p[2]) : p \in prods }

(* cfg_utils.cfg_to_weak_chomsky_normal_form *)
cfg_to_weak_chomsky_normal_form(c) ==
    LET cfg_fixed == remove_useless_symbols(
                         eliminate_unit_productions(remove_useless_symbols(c)))
    IN  CFG({}, cfg_fixed.terminals, cfg_fixed.start_symbol,
            decompose_productions(get_productions_with_only_single_terminals(cfg_fixed)))

(* cfpq._convert_wcnf_prods *)
convert_wcnf_prods(prods) ==
    [eps_nonterm       |-> { p[1] : p \in {q \in prods : Len(q[2]) = 0} },
     term_prods        |-> { <<p[1], p[2][1]>> : p \in {q \in prods : Len(q[2]) = 1} },
     two_nonterm_prods |-> { <<p[1], p[2][1], p[2][2]>> : p \in {q \in prods : Len(q[2]) = 2} }]

(***************************************************************************)
(* The result of a solver: the set it returns, or the exception it raises. *)
(***************************************************************************)
Ok(v) == [status |-> "ok", value |-> v]
Raise(e) == [status |-> e, value |-> {}]

(* list(s) / iteration over a Python set or dict: some fixed order *)
RECURSIVE SetToSeq(_)
SetToSeq(S) ==
    IF S = {} THEN <<>>
    ELSE LET x == CHOOSE y \in S : TRUE IN <<x>> \o SetToSeq(S \ {x})

(***************************************************************************)
(* cfpq._run_hellings_algorithm                                            *)
(***************************************************************************)
Heads(two) == { p[1] : p \in two }

(* the scan without "and new not in result": a triple the relation holds   *)
(* already is appended again                                               *)
hellings_appends_again(r, t, res, two) ==
    SetToSeq(IF r[3] = t[1]
             THEN { <<r[1], n, t[3]>> : n \in {h \in { p[1] : p \in two } : <<h, r[2], t[2]>> \in two} }
             ELSE {})
    \o
    SetToSeq(IF t[3] = r[1]
             THEN { <<t[1], n, r[3]>> : n \in {h \in { p[1] : p \in two } : <<h, t[2], r[2]>> \in two} }
             ELSE {})

(* the scan with the branch "if l == i" only: the popped triple is joined  *)
(* with the triples that end where it starts, never with those that start  *)
(* where it ends                                                           *)
hellings_appends_left_only(r, t, res, two) ==
    SetToSeq(IF r[3] = t[1]
             THEN { <<r[1], n, t[3]>> : n \in {h \in { p[1] : p \in two } : <<h, r[2], t[2]>> \in two} } \ res
             ELSE {})

(* the triples appended to result_deque while the scan of the popped       *)
(* triple t looks at the triple r of result                                *)
hellings_appends(r, t, res, two) ==
    SetToSeq(IF r[3] = t[1]
             THEN { <<r[1], n, t[3]>> : n \in {h \in Heads(two) : <<h, r[2], t[2]>> \in two} } \ res
             ELSE {})
    \o
    SetToSeq(IF t[3] = r[1]
             THEN { <<t[1], n, r[3]>> : n \in {h \in Heads(two) : <<h, t[2], r[2]>> \in two} } \ res
             ELSE {})

RECURSIVE hellings_scan(_, _, _, _)
hellings_scan(rs, t, res, two) ==
    IF rs = <<>> THEN <<>>
    ELSE hellings_appends(Head(rs), t, res, two) \o hellings_scan(Tail(rs), t, res, two)

SeqRange(q) == { q[k] : k \in 1 .. Len(q) }

RECURSIVE hellings_loop(_, _, _)
hellings_loop(res, result_deque, two) ==
    IF result_deque = <<>> THEN res
    ELSE LET appended == hellings_scan(SetToSeq(res), Head(result_deque), res, two)
         IN  hellings_loop(res \cup SeqRange(appended), Tail(result_deque) \o appended, two)

hellings_seed(c, g) ==
    LET wcnf  == cfg_to_weak_chomsky_normal_form(c)
        prods == convert_wcnf_prods(wcnf.productions)
    IN  { <<i, n, i>> : i \in g.nodes, n \in prods.eps_nonterm }
        \cup { <<e[1], tp[1], e[3]>> :
                 <<e, tp>> \in { x \in g.edges \X prods.term_prods : x[1][2] = x[2][2] } }

run_hellings_algorithm(c, g) ==
    IF Cardinality(g.nodes) = 0 THEN Ok({})
    ELSE LET wcnf  == cfg_to_weak_chomsky_normal_form(c)
             prods == convert_wcnf_prods(wcnf.productions)
             seed  == hellings_seed(c, g)
         IN  Ok(hellings_loop(seed, SetToSeq(seed), prods.two_nonterm_prods))

(***************************************************************************)
(* cfpq._run_matrix_algorithm                                              *)
(***************************************************************************)
matrix_init(c, g) ==
    LET wcnf  == cfg_to_weak_chomsky_normal_form(c)
        prods == convert_wcnf_prods(wcnf.productions)
    IN  [nonterm \in wcnf.variables |->
            (IF nonterm \in prods.eps_nonterm THEN { <<i, i>> : i \in g.nodes } ELSE {})
            \cup { <<e[1], e[3]>> : e \in {d \in g.edges : <<nonterm, d[2]>> \in prods.term_prods} }]

(* the update with "=" for "+=": the matrix of the head becomes the sum of *)
(* the products and loses its own cells                                    *)
matrix_update_assign(M, nonterm, two) ==
    [M EXCEPT ![nonterm] =
        UNION { MatMul(M[p[2]], M[p[3]]) : p \in {q \in two : q[1] = nonterm} }]

(* nonterm_to_mtx[nonterm] += sum(M[n1] @ M[n2] for n1, n2 in two_nonterms) *)
matrix_update(M, nonterm, two) ==
    [M EXCEPT ![nonterm] =
        @ \cup UNION { MatMul(M[p[2]], M[p[3]]) : p \in {q \in two : q[1] = nonterm} }]

(* one "for nonterm, two_nonterms in two_nonterm_prods.items()" sweep *)
RECURSIVE matrix_sweep(_, _, _)
matrix_sweep(M, heads, two) ==
    IF heads = <<>> THEN M
    ELSE matrix_sweep(matrix_update(M, Head(heads), two), Tail(heads), two)

RECURSIVE matrix_loop(_, _)
matrix_loop(M, two) ==
    LET M2 == matrix_sweep(M, SetToSeq(Heads(two)), two)
        changed == \E h \in Heads(two) : Cardinality(M2[h]) # Cardinality(M[h])
    IN  IF ~changed THEN M2 ELSE matrix_loop(M2, two)

run_matrix_algorithm(c, g) ==
    IF Cardinality(g.nodes) = 0 THEN Ok({})
    ELSE LET wcnf  == cfg_to_weak_chomsky_normal_form(c)
             prods == convert_wcnf_prods(wcnf.productions)
             M     == matrix_loop(matrix_init(c, g), prods.two_nonterm_prods)
         IN  Ok(UNION { { <<cell[1], nonterm, cell[2]>> : cell \in M[nonterm] } :
                          nonterm \in DOMAIN M })

(***************************************************************************)
(* ecfg.ECFG.from_cfg and ECFG.to_rsm.  The regex of a head is the union   *)
(* of the concatenations of its bodies (Regex("$") for the empty body),    *)
(* kept here as the finite set of bodies it denotes.  The box of a head is *)
(* regex.to_epsilon_nfa().to_deterministic(): for a union of words, the    *)
(* deterministic automaton whose states are the prefixes of the bodies.    *)
(***************************************************************************)
ECFG_from_cfg(c) ==
    [start_symbol |-> c.start_symbol,
     variables    |-> c.variables,
     productions  |-> [h \in {p[1] : p \in c.productions} |->
                          { p[2] : p \in {q \in c.productions : q[1] = h} }]]

Prefixes(body) == { SubSeq(body, 1, k) : k \in 0 .. Len(body) }

regex_to_deterministic(bodies) ==
    LET sts == UNION { Prefixes(b) : b \in bodies }
    IN  [states       |-> sts,
         symbols      |-> UNION { {b[k] : k \in 1 .. Len(b)} : b \in bodies },
         start_states |-> {<<>>},
         final_states |-> bodies,
         transitions  |-> { <<SubSeq(w, 1, Len(w) - 1), w[Len(w)], w>> : w \in sts \ {<<>>} }]

ECFG_to_rsm(e) ==
    [start_symbol |-> e.start_symbol,
     boxes        |-> [h \in DOMAIN e.productions |-> regex_to_deterministic(e.productions[h])]]

(***************************************************************************)
(* BooleanMatrix.from_rsm: the states are the pairs (Variable, inner       *)
(* state) of all boxes, the start (final) states are the start (final)     *)
(* states of the boxes, and there is one matrix per terminal or            *)
(* nonterminal name that labels a transition of a box.                     *)
(***************************************************************************)
from_rsm(rsm, o) ==
    LET sts    == UNION { { <<v, st>> : st \in rsm.boxes[v].states } : v \in DOMAIN rsm.boxes }
        listed == SetToSeq(sts)
        state_to_index ==
            [st \in sts |->
                LET k == CHOOSE j \in 1 .. Len(listed) : listed[j] = st
                IN  IF o = "asc" THEN k - 1 ELSE Len(listed) - k]
        trs    == UNION { { <<<<v, t[1]>>, t[2], <<v, t[3]>>>> : t \in rsm.boxes[v].transitions } :
                          v \in DOMAIN rsm.boxes }
    IN  BooleanMatrix(
            state_to_index,
            UNION { { <<v, st>> : st \in rsm.boxes[v].start_states } : v \in DOMAIN rsm.boxes },
            UNION { { <<v, st>> : st \in rsm.boxes[v].final_states } : v \in DOMAIN rsm.boxes },
            [label \in { t[2] : t \in trs } |->
                { <<state_to_index[t[1]], state_to_index[t[3]]>> :
                      t \in {tr \in trs : tr[2] = label} }])

(* pyformlang EpsilonNFA.from_networkx: the labeled edges are the          *)
(* transitions; a node is a start (final) state when its is_start          *)
(* (is_final) attribute is set                                             *)
from_networkx(g) == MkNFA({}, g.edges, g.is_start, g.is_final)

(***************************************************************************)
(* cfpq._run_tensor_algorithm.  bool_matrices is a plain dict: reading a   *)
(* label it does not hold raises KeyError.                                 *)
(***************************************************************************)
(* the pass without the test of start_states and final_states: every cell *)
(* of the closure sets a bit                                               *)
tensor_hits_any_state(cfg_bool_matrix, matrices, graph_states, n) ==
    LET intersection == And(cfg_bool_matrix, [graph_states EXCEPT !.bool_matrices = matrices])
        tc_indices   == nonzero(get_transitive_closure(intersection))
        cfg_index_to_state == IndexToState(cfg_bool_matrix)
    IN  [size |-> Cardinality(tc_indices),
         hits |-> { <<cfg_index_to_state[c[1] \div n][1], c[1] % n, c[2] % n>> : c \in tc_indices }]

(* lines 213-225: the cells of the closure whose RSM parts are a start and *)
(* a final state, as <<nonterm, graph_i, graph_j>>                         *)
tensor_hits(cfg_bool_matrix, matrices, graph_states, n) ==
    LET intersection == And(cfg_bool_matrix, [graph_states EXCEPT !.bool_matrices = matrices])
        tc_indices   == nonzero(get_transitive_closure(intersection))
        cfg_index_to_state == IndexToState(cfg_bool_matrix)
    IN  [size |-> Cardinality(tc_indices),
         hits |-> { <<cfg_index_to_state[c[1] \div n][1], c[1] % n, c[2] % n>> :
                      c \in { d \in tc_indices :
                                /\ cfg_index_to_state[d[1] \div n] \in cfg_bool_matrix.start_states
                                /\ cfg_index_to_state[d[2] \div n] \in cfg_bool_matrix.final_states } }]

RECURSIVE tensor_loop(_, _, _, _, _)
tensor_loop(cfg_bool_matrix, matrices, graph_states, n, last_tc_sz) ==
    LET pass == tensor_hits(cfg_bool_matrix, matrices, graph_states, n)
    IN  IF pass.size = last_tc_sz THEN Ok(matrices)
        ELSE IF \E h \in pass.hits : h[1] \notin DOMAIN matrices THEN Raise("KeyError")
        ELSE tensor_loop(cfg_bool_matrix,
                         [l \in DOMAIN matrices |->
                             matrices[l] \cup { <<h[2], h[3]>> : h \in {x \in pass.hits : x[1] = l} }],
                         graph_states, n, pass.size)

run_tensor_algorithm(c, g, o) ==
    LET cfg_bool_matrix   == from_rsm(ECFG_to_rsm(ECFG_from_cfg(c)), o)
        graph_bool_matrix == from_nfa(from_networkx(g), o)
        n                 == Size(graph_bool_matrix)
        graph_index_to_state == IndexToState(graph_bool_matrix)
        nullable          == get_nullable_symbols(c)
        self_loop_matrix  == { <<i, i>> : i \in 0 .. (n - 1) }
    IN  IF \E nonterm \in nullable : nonterm \notin DOMAIN graph_bool_matrix.bool_matrices
        THEN Raise("KeyError")
        ELSE LET seeded == [l \in DOMAIN graph_bool_matrix.bool_matrices |->
                               graph_bool_matrix.bool_matrices[l]
                               \cup (IF l \in nullable THEN self_loop_matrix ELSE {})]
                 run == tensor_loop(cfg_bool_matrix, seeded, graph_bool_matrix, n, 0)
             IN  IF run.status # "ok" THEN run
                 ELSE Ok(UNION { { <<graph_index_to_state[cell[1]], nonterm,
                                     graph_index_to_state[cell[2]]>> : cell \in run.value[nonterm] } :
                                 nonterm \in DOMAIN run.value })

(***************************************************************************)
(* cfpq.cfpq: writes cfg._start_symbol and the is_start / is_final         *)
(* attributes of the graph's nodes, runs the chosen algorithm and filters  *)
(* the triples of the start symbol.                                        *)
(***************************************************************************)
HELLINGS == "HELLINGS"
MATRIX == "MATRIX"
TENSOR == "TENSOR"
CFPQAlgorithm == {HELLINGS, MATRIX, TENSOR}

(* "if not start_nodes: start_nodes = graph.nodes" *)
cfpq_nodes(g, nodes) == IF nodes = None \/ nodes = {} THEN g.nodes ELSE nodes

cfpq_cfg(c, start_symbol) == [c EXCEPT !.start_symbol = start_symbol]

cfpq_graph(g, start_nodes, final_nodes) ==
    [g EXCEPT !.is_start = @ \cup (g.nodes \cap cfpq_nodes(g, start_nodes)),
              !.is_final = @ \cup (g.nodes \cap cfpq_nodes(g, final_nodes))]

(* cfpq that filters by the marks is_start and is_final of the nodes *)
cfpq_by_marks(algorithm, g, c, start_nodes, final_nodes, start_symbol, o) ==
    LET c2  == cfpq_cfg(c, start_symbol)
        g2  == cfpq_graph(g, start_nodes, final_nodes)
        run == CASE algorithm = HELLINGS -> run_hellings_algorithm(c2, g2)
                 [] algorithm = MATRIX   -> run_matrix_algorithm(c2, g2)
                 [] algorithm = TENSOR   -> run_tensor_algorithm(c2, g2, o)
    IN  IF run.status # "ok" THEN run
        ELSE Ok({ <<t[1], t[3]>> :
                    t \in { x \in run.value :
                              /\ x[2] = start_symbol
                              /\ x[1] \in g2.is_start
                              /\ x[3] \in g2.is_final } })

(* cfpq.cfpq *)
cfpq(algorithm, g, c, start_nodes, final_nodes, start_symbol, o) ==
    LET c2  == cfpq_cfg(c, start_symbol)
        g2  == cfpq_graph(g, start_nodes, final_nodes)
        run == CASE algorithm = HELLINGS -> run_hellings_algorithm(c2, g2)
                 [] algorithm = MATRIX   -> run_matrix_algorithm(c2, g2)
                 [] algorithm = TENSOR   -> run_tensor_algorithm(c2, g2, o)
    IN  IF run.status # "ok" THEN run
        ELSE Ok({ <<t[1], t[3]>> :
                    t \in { x \in run.value :
                              /\ x[2] = start_symbol
                              /\ x[1] \in cfpq_nodes(g, start_nodes)
                              /\ x[3] \in cfpq_nodes(g, final_nodes) } })

(***************************************************************************)
(* Reference semantics: the pairs joined by a path of one or more edges    *)
(* whose labels spell a word the query automaton accepts.                  *)
(***************************************************************************)
Delta(dfa, q, l) == { t[3] : t \in {tr \in dfa.transitions : tr[1] = q /\ tr[2] = l} }

(* the configurations <<node, query state>> one edge after those of conf *)
PathStep(g, dfa, conf) ==
    UNION { { <<e[3], q2>> : q2 \in Delta(dfa, c[2], e[2]) } :
            <<c, e>> \in { x \in conf \X g.edges : x[1][1] = x[2][1] } }

RECURSIVE PathClosure(_, _, _)
PathClosure(g, dfa, conf) ==
    LET conf2 == conf \cup PathStep(g, dfa, conf)
    IN  IF conf2 = conf THEN conf ELSE PathClosure(g, dfa, conf2)

(* the nodes v with a path u -> v of at least one edge spelling a word of L(dfa) *)
WordReach(g, dfa, u) ==
    { c[1] : c \in { d \in PathClosure(g, dfa,
                                PathStep(g, dfa, { <<u, q0>> : q0 \in dfa.start_states })) :
                       d[2] \in dfa.final_states } }

Selected(g, nodes) == IF nodes = None THEN g.nodes ELSE nodes

RegularPairs(g, regex, S, F) ==
    { p \in Selected(g, S) \X Selected(g, F) :
        p[2] \in WordReach(g, generate_min_dfa_by_regex(regex), p[1]) }

(***************************************************************************)
(* Reference semantics: the pairs joined by a path (the empty path         *)
(* included) that spells a word derivable from a nonterminal, over the     *)
(* productions of the grammar as written.                                  *)
(***************************************************************************)
(* a path u -> v spells a word derivable from the sentential form body,    *)
(* given the derivable triples D                                           *)
RECURSIVE Spells(_, _, _, _, _, _)
Spells(g, c, D, body, u, v) ==
    IF body = <<>> THEN u = v
    ELSE \E w \in g.nodes :
            /\ IF body[1] \in c.terminals
               THEN <<u, body[1], w>> \in g.edges
               ELSE <<u, body[1], w>> \in D
            /\ Spells(g, c, D, Tail(body), w, v)

RECURSIVE Derivable(_, _, _)
Derivable(g, c, D) ==
    LET D2 == D \cup { <<x[1], p[1], x[2]>> :
                         <<x, p>> \in { y \in (g.nodes \X g.nodes) \X c.productions :
                                          Spells(g, c, D, y[2][2], y[1][1], y[1][2]) } }
    IN  IF D2 = D THEN D ELSE Derivable(g, c, D2)

ContextFreePairs(g, c, start_symbol, S, F) ==
    { p \in Selected(g, S) \X Selected(g, F) :
        <<p[1], start_symbol, p[2]>> \in Derivable(g, c, {}) }

(***************************************************************************)
(* The inputs of a run: a graph, a grammar (CFG.from_text, start symbol    *)
(* S) and a regular query; equivalent says that the grammar is a           *)
(* right-linear grammar of the query's language.                           *)
(***************************************************************************)
CfpqLabels == {"a", "b", "S"}

StartSymbols == {"S", "A"}

Grammar(name) ==
    CASE name = "anbn"   -> CFG({"S"}, {"a", "b"}, "S",
                                {<<"S", <<"a", "b">>>>, <<"S", <<"a", "S", "b">>>>})
      [] name = "dyck"   -> CFG({"S"}, {"a", "b"}, "S",
                                {<<"S", <<>>>>, <<"S", <<"a", "S", "b", "S">>>>, <<"S", <<"S", "S">>>>})
      [] name = "astar"  -> CFG({"S"}, {"a"}, "S", {<<"S", <<>>>>, <<"S", <<"a", "S">>>>})
      [] name = "ab"     -> CFG({"S", "A"}, {"a", "b"}, "S",
                                {<<"S", <<"a", "A">>>>, <<"A", <<"b">>>>})
      [] name = "unit"   -> CFG({"S", "A", "B"}, {"a", "b"}, "S",
                                {<<"S", <<"A">>>>, <<"S", <<"A", "B">>>>, <<"A", <<"a">>>>,
                                 <<"B", <<"b">>>>, <<"B", <<>>>>})
      [] name = "nulls"  -> CFG({"S", "A", "B"}, {"a", "b"}, "S",
                                {<<"S", <<"A", "B">>>>, <<"A", <<"a">>>>, <<"A", <<>>>>,
                                 <<"B", <<"b">>>>, <<"B", <<>>>>})
      [] name = "empty"  -> CFG({}, {}, "S", {})

Inputs ==
    { [grammar |-> "astar",  regex |-> "a*",     equivalent |-> TRUE],
      [grammar |-> "ab",     regex |-> "a b",    equivalent |-> TRUE],
      [grammar |-> "anbn",   regex |-> "a*|b",   equivalent |-> FALSE],
      [grammar |-> "dyck",   regex |-> "(a|b)*", equivalent |-> FALSE],
      [grammar |-> "unit",   regex |-> "(a b)*", equivalent |-> FALSE],
      [grammar |-> "empty",  regex |-> "$",      equivalent |-> FALSE] }

NoArgs == [algorithm |-> "", start |-> None, final |-> None, symbol |-> ""]

(* the graph and the grammar as they were before any call wrote to them *)
Fresh(g) == [g EXCEPT !.is_start = {}, !.is_final = {}]
FreshCfg(c) == [c EXCEPT !.start_symbol = "S"]

Init ==
    /\ graph \in GraphsUpTo(CfpqLabels, MaxNodes, MaxEdges)
    /\ \E i \in Inputs : query = i /\ cfg = Grammar(i.grammar)
    /\ ord \in Orders
    /\ op = "init"
    /\ args = NoArgs
    /\ result = Ok({})

(* the same over the labels of the regular queries *)
InitRpq ==
    /\ graph \in GraphsUpTo(RpqLabels, MaxNodes, MaxEdges)
    /\ \E i \in Inputs : query = i /\ cfg = Grammar(i.grammar)
    /\ ord \in Orders
    /\ op = "init"
    /\ args = NoArgs
    /\ result = Ok({})

(* the same with the smaller graphs on which calls are made one after another *)
InitReuse ==
    /\ graph \in GraphsUpTo(CfpqLabels, MaxNodes, MaxReuseEdges)
    /\ \E i \in Inputs : query = i /\ cfg = Grammar(i.grammar)
    /\ ord \in Orders
    /\ op = "init"
    /\ args = NoArgs
    /\ result = Ok({})

RpqTensor(S, F) ==
    /\ op = "init"
    /\ op' = "rpq_tensor"
    /\ args' = [algorithm |-> "", start |-> S, final |-> F, symbol |-> ""]
    /\ result' = Ok(rpq_tensor(graph, query.regex, S, F, ord))
    /\ UNCHANGED <<graph, query, cfg, ord>>

RpqBfs(mode, S, F) ==
    /\ op = "init"
    /\ op' = "rpq_bfs"
    /\ args' = [algorithm |-> mode, start |-> S, final |-> F, symbol |-> ""]
    /\ result' = Ok(rpq_bfs(graph, query.regex, mode, S, F, ord))
    /\ UNCHANGED <<graph, query, cfg, ord>>

Cfpq(algorithm, S, F, start_symbol) ==
    /\ op \in {"init", "earlier"}
    /\ start_symbol \in cfg.variables \cup {"S"}
    /\ op' = "cfpq"
    /\ args' = [algorithm |-> algorithm, start |-> S, final |-> F, symbol |-> start_symbol]
    /\ result' = cfpq(algorithm, graph, cfg, S, F, start_symbol, ord)
    /\ graph' = cfpq_graph(graph, S, F)
    /\ cfg' = cfpq_cfg(cfg, start_symbol)
    /\ UNCHANGED <<query, ord>>

(* a call of cfpq whose result the caller has dropped: what is left of it  *)
(* is what it wrote to the graph and to the grammar                        *)
CfpqEarlier(S, F, start_symbol) ==
    /\ op \in {"init", "earlier"}
    /\ start_symbol \in cfg.variables \cup {"S"}
    /\ op' = "earlier"
    /\ graph' = cfpq_graph(graph, S, F)
    /\ cfg' = cfpq_cfg(cfg, start_symbol)
    /\ UNCHANGED <<query, ord, args, result>>

(* rpq_tensor alone *)
NextRpqTensor == \E S \in NodeSets(graph), F \in NodeSets(graph) : RpqTensor(S, F)

SpecRpqTensor == InitRpq /\ [][NextRpqTensor]_vars

(* the two RPQ solvers *)
NextRpq ==
    \/ \E S \in NodeSets(graph), F \in NodeSets(graph) : RpqTensor(S, F)
    \/ \E mode \in RpqMode, S \in NodeSets(graph), F \in NodeSets(graph) : RpqBfs(mode, S, F)

SpecRpq == InitRpq /\ [][NextRpq]_vars

(* one call of cfpq on a fresh graph and grammar *)
NextCfpq ==
    \E algorithm \in CFPQAlgorithm, S \in NodeSets(graph), F \in NodeSets(graph),
       start_symbol \in StartSymbols :
        op = "init" /\ Cfpq(algorithm, S, F, start_symbol)

SpecCfpq == Init /\ [][NextCfpq]_vars

(* one call of cfpq over all nodes with any start symbol, a nonterminal of *)
(* the grammar or not                                                      *)
CfpqStartSymbol(algorithm, start_symbol) ==
    /\ op = "init"
    /\ op' = "cfpq"
    /\ args' = [algorithm |-> algorithm, start |-> None, final |-> None, symbol |-> start_symbol]
    /\ result' = cfpq(algorithm, graph, cfg, None, None, start_symbol, ord)
    /\ graph' = cfpq_graph(graph, None, None)
    /\ cfg' = cfpq_cfg(cfg, start_symbol)
    /\ UNCHANGED <<query, ord>>

NextStartSymbol ==
    \E algorithm \in CFPQAlgorithm, start_symbol \in StartSymbols :
        CfpqStartSymbol(algorithm, start_symbol)

SpecStartSymbol == Init /\ [][NextStartSymbol]_vars

(* cfpq on a graph and a grammar that earlier calls of cfpq have used *)
NextReuse ==
    \/ \E algorithm \in CFPQAlgorithm, S \in NodeSets(graph), F \in NodeSets(graph),
          start_symbol \in StartSymbols : Cfpq(algorithm, S, F, start_symbol)
    \/ \E S \in NodeSets(graph), F \in NodeSets(graph), start_symbol \in StartSymbols :
          CfpqEarlier(S, F, start_symbol)

SpecReuse == InitReuse /\ [][NextReuse]_vars

(* the bundle of the graph intersected with the bundle of the query *)
Intersect ==
    /\ op = "init"
    /\ op' = "and"
    /\ result' = Ok(And(from_nfa(graph_to_epsilon_nfa(graph, None, None), ord),
                        from_nfa(generate_min_dfa_by_regex(query.regex), ord)))
    /\ UNCHANGED <<graph, query, cfg, ord, args>>

SpecIntersect == Init /\ [][Intersect]_vars

(***************************************************************************)
(* Automata and their matrices.  The automaton is the one the graph        *)
(* stands for; labels may be empty or None; the automaton of the tests     *)
(* of the closure is among the inputs.                                     *)
(***************************************************************************)
AdapterLabels == {"a", "b", "", NullLabel}

(* the fixture nfa of test_boolean_matrix *)
TestNfaGraph ==
    MkGraph(4, {<<0, "a", 1>>, <<1, "b", 1>>, <<1, "c", 2>>, <<2, "c", 3>>, <<3, "b", 0>>})

InitBundle ==
    /\ graph \in GraphsUpTo(AdapterLabels, MaxNodes, MaxEdges) \cup {TestNfaGraph}
    /\ query = [grammar |-> "empty", regex |-> "$", equivalent |-> FALSE]
    /\ cfg = Grammar("empty")
    /\ ord \in Orders
    /\ op = "init"
    /\ args = NoArgs
    /\ result = Ok({})

(* the bundle of the automaton of the graph, every node start and final *)
GraphBundle == from_nfa(graph_to_epsilon_nfa(graph, None, None), ord)

(* T as the only matrix of a bundle over the states of bm *)
ClosureBundle(bm, T) ==
    BooleanMatrix(bm.state_to_index, bm.start_states, bm.final_states,
                  [label \in {"t"} |-> nonzero(T)])

FromNfa ==
    /\ op = "init"
    /\ op' = "from_nfa"
    /\ result' = Ok(GraphBundle)
    /\ UNCHANGED <<graph, query, cfg, ord, args>>

ToNfa ==
    /\ op = "init"
    /\ op' = "to_nfa"
    /\ result' = to_nfa(GraphBundle)
    /\ UNCHANGED <<graph, query, cfg, ord, args>>

Closure ==
    /\ op = "init"
    /\ op' = "closure"
    /\ result' = Ok(get_transitive_closure(GraphBundle))
    /\ UNCHANGED <<graph, query, cfg, ord, args>>

ClosureTwice ==
    /\ op = "init"
    /\ op' = "closure_twice"
    /\ result' = LET T == get_transitive_closure(GraphBundle)
                 IN  Ok([first  |-> T,
                         second |-> get_transitive_closure(ClosureBundle(GraphBundle, T))])
    /\ UNCHANGED <<graph, query, cfg, ord, args>>

NextBundle == FromNfa \/ ToNfa \/ Closure \/ ClosureTwice

SpecBundle == InitBundle /\ [][NextBundle]_vars

(* graph_to_epsilon_nfa with chosen start and final states *)
GraphToEpsilonNfa(S, F) ==
    /\ op = "init"
    /\ op' = "graph_to_epsilon_nfa"
    /\ args' = [algorithm |-> "", start |-> S, final |-> F, symbol |-> ""]
    /\ result' = Ok(graph_to_epsilon_nfa(graph, S, F))
    /\ UNCHANGED <<graph, query, cfg, ord>>

NextAdapter == \E S \in NodeSets(graph), F \in NodeSets(graph) : GraphToEpsilonNfa(S, F)

SpecAdapter == InitBundle /\ [][NextAdapter]_vars

(* the same for a graph automaton with chosen start and final nodes *)
IntersectSelected(S, F) ==
    /\ op = "init"
    /\ op' = "and"
    /\ args' = [algorithm |-> "", start |-> S, final |-> F, symbol |-> ""]
    /\ result' = Ok(And(from_nfa(graph_to_epsilon_nfa(graph, S, F), ord),
                        from_nfa(generate_min_dfa_by_regex(query.regex), ord)))
    /\ UNCHANGED <<graph, query, cfg, ord>>

NextProduct == \E S \in NodeSets(graph), F \in NodeSets(graph) : IntersectSelected(S, F)

SpecProduct == InitRpq /\ [][NextProduct]_vars

(***************************************************************************)
(* Properties of the query engine.                                         *)
(***************************************************************************)

(* C1: rpq_tensor returns exactly the pairs of S x F joined by a path of   *)
(* at least one edge that spells a word of L(Q); a pair joined only by the *)
(* empty path is not returned.                                             *)
C1_TensorExact ==
    op = "rpq_tensor" =>
        result = Ok(RegularPairs(graph, query.regex, args.start, args.final))

(* the query accepts the empty word, a path of two edges is answered and a *)
(* selected node that only the empty path joins to itself is not           *)
C1_Witness ==
    /\ op = "rpq_tensor"
    /\ query.regex = "(a b)*"
    /\ result.value # {}
    /\ \E u \in Selected(graph, args.start) \cap Selected(graph, args.final) :
          <<u, u>> \notin result.value

(* C2: cfpq, with each algorithm, returns exactly the pairs of S x F       *)
(* joined by a path (the empty one included) that spells a word derivable  *)
(* from the start symbol.                                                  *)
C2_CfpqExact ==
    op = "cfpq" =>
        result = Ok(ContextFreePairs(graph, cfg, args.symbol, args.start, args.final))

(* C3: HELLINGS, MATRIX and TENSOR return the same pairs on the same       *)
(* graph, grammar, start symbol and node sets.                             *)
C3_AlgorithmsAgree ==
    op = "cfpq" =>
        \A algorithm \in CFPQAlgorithm :
            cfpq(algorithm, Fresh(graph), FreshCfg(cfg), args.start, args.final,
                 args.symbol, ord) = result

(* C4: rpq_bfs in the mode FIND_REACHABLE_FOR_EACH_START_NODE returns the  *)
(* pairs that rpq_tensor returns on the same inputs.                       *)
C4_BfsEqualsTensor ==
    (op = "rpq_bfs" /\ args.algorithm = FIND_REACHABLE_FOR_EACH_START_NODE) =>
        result = Ok(rpq_tensor(graph, query.regex, args.start, args.final, ord))

(* C5: for a regular query and a right-linear grammar of its language,     *)
(* cfpq with TENSOR returns the pairs rpq_tensor returns, all nodes being  *)
(* sources and targets.                                                    *)
C5_RpqEqualsCfpqTensor ==
    (/\ op = "cfpq"
     /\ args.algorithm = TENSOR
     /\ query.equivalent
     /\ args.symbol = "S"
     /\ args.start = None
     /\ args.final = None) =>
        result = Ok(rpq_tensor(Fresh(graph), query.regex, None, None, ord))

(* C6: rpq_tensor restricted to node sets S' and F' returns the            *)
(* unrestricted result intersected with S' x F'.                           *)
C6_TensorRestriction ==
    (op = "rpq_tensor" /\ args.start # None /\ args.final # None) =>
        result = Ok(rpq_tensor(graph, query.regex, None, None, ord)
                      \cap (args.start \X args.final))

(* an empty source set on a graph where the unrestricted query has answers *)
C6_Witness ==
    /\ op = "rpq_tensor"
    /\ args.start = {}
    /\ args.final = graph.nodes
    /\ rpq_tensor(graph, query.regex, None, None, ord) # {}
    /\ result = Ok({})

(* C7: cfpq restricted to node sets S' and F' returns the unrestricted     *)
(* result intersected with S' x F'; an empty S' or F' gives no pair.       *)
C7_CfpqRestriction ==
    (op = "cfpq" /\ args.start # None /\ args.final # None) =>
        LET full == cfpq(args.algorithm, Fresh(graph), FreshCfg(cfg), None, None,
                         args.symbol, ord)
        IN  /\ result.status = full.status
            /\ result.value = full.value \cap (args.start \X args.final)

(* C8: on a graph without nodes every solver returns the empty set and     *)
(* raises nothing.                                                         *)
C8_EmptyGraph ==
    (op # "init" /\ graph.nodes = {}) => result = Ok({})

(* C9: a call of cfpq on a graph and a grammar that earlier calls used     *)
(* returns what the same call returns on fresh copies, whatever the order  *)
(* in which the states are enumerated.                                     *)
C9_ReuseSameAsFresh ==
    op = "cfpq" =>
        \A o \in Orders :
            result = cfpq(args.algorithm, Fresh(graph), FreshCfg(cfg), args.start,
                          args.final, args.symbol, o)

(* a TENSOR call with answers on a graph that carries marks of an earlier  *)
(* call with other node sets                                               *)
C9_Witness ==
    /\ op = "cfpq"
    /\ args.algorithm = TENSOR
    /\ result.status = "ok"
    /\ result.value # {}
    /\ graph.is_start # cfpq_nodes(graph, args.start)
    /\ graph.is_final # cfpq_nodes(graph, args.final)

(* C10: the matrix of a symbol in A & B is the Kronecker product of the    *)
(* matrices of the symbol in A and in B; a symbol of one operand only has  *)
(* no matrix in A & B.                                                     *)
C10_IntersectIsKronecker ==
    op = "and" =>
        LET A == from_nfa(graph_to_epsilon_nfa(graph, None, None), ord)
            B == from_nfa(generate_min_dfa_by_regex(query.regex), ord)
            R == result.value
            nb == Size(B)
        IN  /\ DOMAIN R.bool_matrices = (DOMAIN A.bool_matrices) \cap (DOMAIN B.bool_matrices)
            /\ \A s \in DOMAIN R.bool_matrices :
                  /\ R.bool_matrices[s] \subseteq
                        (0 .. (Size(A) * nb - 1)) \X (0 .. (Size(A) * nb - 1))
                  /\ \A i \in 0 .. (Size(A) - 1), j \in 0 .. (Size(A) - 1),
                        i2 \in 0 .. (nb - 1), j2 \in 0 .. (nb - 1) :
                        (<<i * nb + i2, j * nb + j2>> \in R.bool_matrices[s])
                            <=> (/\ <<i, j>> \in A.bool_matrices[s]
                                 /\ <<i2, j2>> \in B.bool_matrices[s])

(* both operands have the symbol a and more than one state, the product of *)
(* a has a cell, and b or S is a symbol of one operand only                *)
C10_Witness ==
    /\ op = "and"
    /\ Cardinality(graph.nodes) = 2
    /\ query.regex = "a b"
    /\ "a" \in DOMAIN result.value.bool_matrices
    /\ result.value.bool_matrices["a"] # {}
    /\ \E e \in graph.edges : e[2] = "S"

(* C11: A & B has one state <<a, b>> for every state a of A and b of B, at *)
(* index idx_A(a) * |B| + idx_B(b), a bijection onto 0 .. |A|*|B| - 1; its *)
(* start states are the pairs of start states and its final states the     *)
(* pairs of final states.                                                  *)
C11_ProductStates ==
    op = "and" =>
        LET A == from_nfa(graph_to_epsilon_nfa(graph, args.start, args.final), ord)
            B == from_nfa(generate_min_dfa_by_regex(query.regex), ord)
            R == result.value
            idx == R.state_to_index
        IN  /\ DOMAIN idx = (DOMAIN A.state_to_index) \X (DOMAIN B.state_to_index)
            /\ \A st \in DOMAIN idx :
                  idx[st] = A.state_to_index[st[1]] * Size(B) + B.state_to_index[st[2]]
            /\ { idx[st] : st \in DOMAIN idx } = 0 .. (Size(A) * Size(B) - 1)
            /\ \A st1 \in DOMAIN idx, st2 \in DOMAIN idx : idx[st1] = idx[st2] => st1 = st2
            /\ R.start_states = A.start_states \X B.start_states
            /\ R.final_states = A.final_states \X B.final_states

(* operands of two and three states, and start and final sets of the graph *)
(* automaton that are proper, non-empty and different                      *)
C11_Witness ==
    /\ op = "and"
    /\ Cardinality(DOMAIN result.value.state_to_index) = 6
    /\ args.start = {0}
    /\ args.final = {1}
    /\ result.value.start_states # {}
    /\ result.value.final_states # {}
    /\ result.value.start_states # result.value.final_states

(* the pairs <<i, j>> joined by a path of one or more cells of E *)
RECURSIVE PathsBy(_, _)
PathsBy(E, R) ==
    LET R2 == R \cup { <<x[1][1], x[2][2]>> : x \in { y \in R \X E : y[1][2] = y[2][1] } }
    IN  IF R2 = R THEN R ELSE PathsBy(E, R2)

Transitions(bm) == UNION { bm.bool_matrices[l] : l \in DOMAIN bm.bool_matrices }

(* C12: cell (i, j) of the closure is nonzero iff a path of one or more    *)
(* transitions leads from state i to state j; (i, i) is nonzero only on a  *)
(* cycle.                                                                  *)
C12_ClosureIsReachability ==
    op = "closure" =>
        nonzero(result.value) = PathsBy(Transitions(GraphBundle), Transitions(GraphBundle))

(* a state is joined to itself by a cycle of two or more transitions only *)
C12_Witness ==
    /\ op = "closure"
    /\ \E c \in nonzero(result.value) :
          c[1] = c[2] /\ c \notin Transitions(GraphBundle)

(* C13: the closure of the closure has the nonzero cells of the closure. *)
C13_ClosureIdempotent ==
    op = "closure_twice" =>
        nonzero(result.value.second) = nonzero(result.value.first)

(* the closure has cells that paths of three transitions only give *)
C13_Witness ==
    /\ op = "closure_twice"
    /\ graph = TestNfaGraph
    /\ Cardinality(nonzero(result.value.second)) = 16

(* the matrix of test_transitive_closure, row by row *)
TestClosure ==
    << <<33, 84, 60, 44>>, <<44, 117, 84, 60>>, <<16, 44, 33, 24>>, <<24, 60, 44, 33>> >>

(* C14: on the automaton 0-a->1, 1-b->1, 1-c->2, 2-c->3, 3-b->0 the        *)
(* closure is the matrix of the test: cell (p, q) holds TestClosure[p][q]  *)
(* and every cell is nonzero.                                              *)
C14_ClosureOfTestNfa ==
    (op = "closure" /\ graph = TestNfaGraph) =>
        LET idx == GraphBundle.state_to_index
        IN  /\ nonzero(result.value) = (0 .. 3) \X (0 .. 3)
            /\ \A p \in 0 .. 3, q \in 0 .. 3 :
                  result.value[<<idx[p], idx[q]>>] = TestClosure[p + 1][q + 1]

C14_Witness ==
    /\ op = "closure"
    /\ graph = TestNfaGraph
    /\ ord = "asc"
    /\ result.value[<<1, 1>>] = 117

(* C15: to_nfa after from_nfa completes and returns an automaton with the  *)
(* transitions, the start states and the final states of the automaton it  *)
(* started from.                                                           *)
C15_ToNfaInvertsFromNfa ==
    op = "to_nfa" =>
        LET N == graph_to_epsilon_nfa(graph, None, None)
        IN  /\ result.status = "ok"
            /\ result.value.transitions = N.transitions
            /\ result.value.start_states = N.start_states
            /\ result.value.final_states = N.final_states

(* C16: from_nfa maps the states of the automaton one to one onto 0..n-1,  *)
(* has one matrix per symbol, and cell (idx(p), idx(q)) of the matrix of s *)
(* is set iff <<p, s, q>> is a transition; the set cells of a matrix are   *)
(* as many as the transitions of its symbol.                               *)
C16_FromNfaMatrices ==
    op = "from_nfa" =>
        LET N == graph_to_epsilon_nfa(graph, None, None)
            R == result.value
            idx == R.state_to_index
            n == Cardinality(N.states)
        IN  /\ DOMAIN idx = N.states
            /\ { idx[p] : p \in N.states } = 0 .. (n - 1)
            /\ \A p \in N.states, q \in N.states : idx[p] = idx[q] => p = q
            /\ DOMAIN R.bool_matrices = N.symbols
            /\ \A s \in N.symbols :
                  /\ R.bool_matrices[s] \subseteq (0 .. (n - 1)) \X (0 .. (n - 1))
                  /\ \A p \in N.states, q \in N.states :
                        (<<idx[p], idx[q]>> \in R.bool_matrices[s])
                            <=> (<<p, s, q>> \in N.transitions)
                  /\ Cardinality(R.bool_matrices[s])
                        = Cardinality({t \in N.transitions : t[2] = s})

(* two symbols, one of them on a single edge between two different states *)
C16_Witness ==
    /\ op = "from_nfa"
    /\ DOMAIN result.value.bool_matrices = {"a", "b"}
    /\ Cardinality(DOMAIN result.value.state_to_index) = 2
    /\ \E c \in result.value.bool_matrices["a"] : c[1] # c[2]

(* C17: graph_to_epsilon_nfa has the transition u -label-> v for every     *)
(* edge with a label, u -epsilon-> v for every edge whose label is empty   *)
(* or None, and no other transition; the start states are the given ones,  *)
(* every node when none are given, and likewise the final states; a given  *)
(* empty set gives no start or no final state.                             *)
C17_GraphToEpsilonNfa ==
    op = "graph_to_epsilon_nfa" =>
        LET N == result.value
            unlabelled(e) == e[2] = "" \/ e[2] = NullLabel
        IN  /\ \A e \in graph.edges :
                  IF unlabelled(e) THEN <<e[1], Epsilon, e[3]>> \in N.transitions
                                   ELSE e \in N.transitions
            /\ \A t \in N.transitions :
                  \E e \in graph.edges :
                      /\ e[1] = t[1]
                      /\ e[3] = t[3]
                      /\ IF t[2] = Epsilon THEN unlabelled(e) ELSE e[2] = t[2]
            /\ (args.start = None => N.start_states = graph.nodes)
            /\ (args.start # None => N.start_states = args.start)
            /\ (args.final = None => N.final_states = graph.nodes)
            /\ (args.final # None => N.final_states = args.final)

(* an edge with an empty label, an edge with a symbol, an empty set of     *)
(* start states and absent final states                                    *)
C17_Witness ==
    /\ op = "graph_to_epsilon_nfa"
    /\ \E e \in graph.edges : e[2] = ""
    /\ \E e \in graph.edges : e[2] = "a"
    /\ Cardinality(graph.nodes) = 2
    /\ args.start = {}
    /\ args.final = None
    /\ result.value.start_states = {}
    /\ result.value.final_states = graph.nodes

(* C18: cfpq called with a start symbol that is not a nonterminal of the   *)
(* grammar ends in an InvalidStartSymbol error and returns no result set.  *)
C18_InvalidStartSymbol ==
    (op = "cfpq" /\ args.symbol \notin cfg.variables) =>
        result.status = "InvalidStartSymbol"

(***************************************************************************)
(* ECFG.from_text.  A text is a string over the tokens below: the arrow    *)
(* "->" is one token, "\n" ends a line, " " is white space and the other   *)
(* tokens are the letters of heads and bodies.                             *)
(***************************************************************************)
MaxTextLen == 6

EcfgTokens == {" ", "->", "\n", "S", "a"}

Texts == UNION { [1..n -> EcfgTokens] : n \in 0..MaxTextLen }

(* the place of the first token tok of str *)
IndexOf(str, tok) ==
    CHOOSE k \in 1..Len(str) : str[k] = tok /\ \A j \in 1..(k - 1) : str[j] # tok

(* str.splitlines: one line per line end, and the rest when it is not empty *)
RECURSIVE splitlines(_)
splitlines(text) ==
    IF text = <<>> THEN <<>>
    ELSE IF \E i \in 1..Len(text) : text[i] = "\n"
         THEN LET i == IndexOf(text, "\n")
              IN  <<SubSeq(text, 1, i - 1)>> \o splitlines(SubSeq(text, i + 1, Len(text)))
         ELSE <<text>>

(* str.split("->"): the fields between the arrows *)
RECURSIVE split(_)
split(line) ==
    IF \E i \in 1..Len(line) : line[i] = "->"
    THEN LET i == IndexOf(line, "->")
         IN  <<SubSeq(line, 1, i - 1)>> \o split(SubSeq(line, i + 1, Len(line)))
    ELSE <<line>>

(* str.strip *)
RECURSIVE strip(_)
strip(str) ==
    IF str = <<>> THEN <<>>
    ELSE IF Head(str) = " " THEN strip(Tail(str))
    ELSE IF str[Len(str)] = " " THEN strip(SubSeq(str, 1, Len(str) - 1))
    ELSE str

(* pyformlang Variable(head): a variable is its name *)
Variable(head) == head

(* pyformlang Regex(body) for a body of letters and spaces: the empty      *)
(* language for an empty body, else the concatenation of the symbols that  *)
(* the spaces separate                                                     *)
RECURSIVE RegexSymbols(_)
RegexSymbols(body) ==
    IF body = <<>> THEN <<>>
    ELSE IF Head(body) = " " THEN RegexSymbols(Tail(body))
    ELSE IF \E i \in 1..Len(body) : body[i] = " "
         THEN LET i == IndexOf(body, " ")
              IN  <<SubSeq(body, 1, i - 1)>> \o RegexSymbols(SubSeq(body, i + 1, Len(body)))
         ELSE <<body>>

Regex(body) == IF body = <<>> THEN "Empty" ELSE RegexSymbols(body)

(* the loop of from_text without "assert head not in variables": a later   *)
(* line of the same head replaces the production                           *)
RECURSIVE from_text_loop_overwrite(_, _, _)
from_text_loop_overwrite(lines, variables, prods) ==
    IF lines = <<>> THEN Ok([variables |-> variables, productions |-> prods])
    ELSE IF strip(Head(lines)) = <<>> THEN from_text_loop_overwrite(Tail(lines), variables, prods)
    ELSE LET data == [i \in 1..Len(split(Head(lines))) |-> strip(split(Head(lines))[i])]
         IN  IF Len(data) # 2 THEN Raise("AssertionError")
             ELSE LET head == Variable(data[1])
                      body == Regex(data[2])
                  IN  from_text_loop_overwrite(Tail(lines), variables \cup {head},
                          { q \in prods : q[1] # head } \cup {<<head, body>>})

from_text_overwrite(text, start_symbol) ==
    LET r == from_text_loop_overwrite(splitlines(text), {}, {})
    IN  IF r.status # "ok" THEN r
        ELSE Ok([start_symbol |-> start_symbol,
                 variables    |-> r.value.variables,
                 productions  |-> r.value.productions])

(* the loop of from_text over the lines that are left; prods is the dict   *)
(* as the set of its items                                                 *)
RECURSIVE from_text_loop(_, _, _)
from_text_loop(lines, variables, prods) ==
    IF lines = <<>> THEN Ok([variables |-> variables, productions |-> prods])
    ELSE IF strip(Head(lines)) = <<>> THEN from_text_loop(Tail(lines), variables, prods)
    ELSE LET data == [i \in 1..Len(split(Head(lines))) |-> strip(split(Head(lines))[i])]
         IN  IF Len(data) # 2 THEN Raise("AssertionError")
             ELSE LET head == Variable(data[1])
                      body == Regex(data[2])
                  IN  IF head \in variables THEN Raise("AssertionError")
                      ELSE from_text_loop(Tail(lines), variables \cup {head},
                               { q \in prods : q[1] # head } \cup {<<head, body>>})

(* ECFG.from_text *)
from_text(text, start_symbol) ==
    LET r == from_text_loop(splitlines(text), {}, {})
    IN  IF r.status # "ok" THEN r
        ELSE Ok([start_symbol |-> start_symbol,
                 variables    |-> r.value.variables,
                 productions  |-> r.value.productions])

InitEcfg ==
    /\ graph = MkGraph(0, {})
    /\ query = [grammar |-> "empty", regex |-> "$", equivalent |-> FALSE]
    /\ cfg = Grammar("empty")
    /\ ord = "asc"
    /\ op = "init"
    /\ \E text \in Texts, start_symbol \in StartSymbols :
           args = [text |-> text, start_symbol |-> start_symbol]
    /\ result = Ok({})

FromText ==
    /\ op = "init"
    /\ op' = "from_text"
    /\ result' = from_text(args.text, args.start_symbol)
    /\ UNCHANGED <<graph, query, cfg, ord, args>>

NextEcfg == FromText

SpecEcfg == InitEcfg /\ [][NextEcfg]_vars

(* the lines of a text that are not blank, and what stands left and right  *)
(* of the arrow of a line that has one arrow                               *)
NonBlankLines(text) ==
    LET lines == splitlines(text)
    IN  { i \in 1..Len(lines) : \E k \in 1..Len(lines[i]) : lines[i][k] # " " }

Arrows(line) == { k \in 1..Len(line) : line[k] = "->" }

HeadOf(line) == LET k == CHOOSE x \in Arrows(line) : TRUE IN strip(SubSeq(line, 1, k - 1))

BodyOf(line) == LET k == CHOOSE x \in Arrows(line) : TRUE IN strip(SubSeq(line, k + 1, Len(line)))

C20_AllReachableIsProjection ==
    (op = "rpq_bfs" /\ args.algorithm = FIND_ALL_REACHABLE) =>
        result.value =
            { p[2] : p \in rpq_bfs(graph, query.regex, FIND_REACHABLE_FOR_EACH_START_NODE,
                                   args.start, args.final, ord) }

(***************************************************************************)
(* BooleanMatrix.sync_bfs step by step: one action per iteration of its    *)
(* "while True" loop.  While the loop runs, result holds its locals.       *)
(***************************************************************************)
MaxIterations == 12

(* the two bundles rpq_bfs hands to sync_bfs *)
nfa_bool_mtx(S, F) == from_nfa(graph_to_epsilon_nfa(graph, S, F), ord)

query_bool_mtx == from_nfa(generate_min_dfa_by_regex(query.regex), ord)

(* the end of sync_bfs without the test of the query state of the row: a   *)
(* graph state is reported from any row                                    *)
sync_bfs_result_any_row(self, other, reachable_per_node, o, visited, init_front) ==
    LET other_states_num     == Size(other)
        start_states_ordered == OrderedList(self.start_states, o)
        self_index_to_state  == IndexToState(self)
        hits == { c \in visited \ init_front :
                    /\ c[2] >= other_states_num
                    /\ self_index_to_state[c[2] - other_states_num] \in self.final_states }
    IN  IF ~reachable_per_node
        THEN { self_index_to_state[c[2] - other_states_num] : c \in hits }
        ELSE { <<start_states_ordered[(c[1] \div other_states_num) + 1],
                 self_index_to_state[c[2] - other_states_num]>> : c \in hits }

(* the end of sync_bfs: the nodes, or pairs, read off visited *)
sync_bfs_result(self, other, reachable_per_node, o, visited, init_front) ==
    LET other_states_num     == Size(other)
        start_states_ordered == OrderedList(self.start_states, o)
        self_index_to_state  == IndexToState(self)
        other_index_to_state == IndexToState(other)
        hits == { c \in visited \ init_front :
                    /\ other_index_to_state[c[1] % other_states_num] \in other.final_states
                    /\ c[2] >= other_states_num
                    /\ self_index_to_state[c[2] - other_states_num] \in self.final_states }
    IN  IF ~reachable_per_node
        THEN { self_index_to_state[c[2] - other_states_num] : c \in hits }
        ELSE { <<start_states_ordered[(c[1] \div other_states_num) + 1],
                 self_index_to_state[c[2] - other_states_num]>> : c \in hits }

(* sync_bfs up to the loop: the early return, or the first front *)
SyncBfsEnter(mode, S, F) ==
    LET self  == nfa_bool_mtx(S, F)
        other == query_bool_mtx
        init_front == init_sync_bfs_front(self, other,
                          mode = FIND_REACHABLE_FOR_EACH_START_NODE,
                          OrderedList(self.start_states, ord))
    IN  /\ op = "init"
        /\ args' = [algorithm |-> mode, start |-> S, final |-> F, symbol |-> ""]
        /\ IF DOMAIN self.state_to_index = {} \/ DOMAIN other.state_to_index = {}
           THEN /\ op' = "sync_bfs_return"
                /\ result' = [status |-> "ok", value |-> {}, init_front |-> {},
                              front |-> {}, visited |-> {}, iterations |-> 0]
           ELSE /\ op' = "sync_bfs_loop"
                /\ result' = [status |-> "loop", value |-> {}, init_front |-> init_front,
                              front |-> init_front, visited |-> init_front, iterations |-> 0]
        /\ UNCHANGED <<graph, query, cfg, ord>>

(* one pass of the loop body, the test of the break included *)
SyncBfsIteration ==
    LET self  == nfa_bool_mtx(args.start, args.final)
        other == query_bool_mtx
        new_front == bfs_iteration(result.front, result.visited,
                                   direct_sum(other, self), Size(other))
        visited   == result.visited \cup new_front
    IN  /\ op = "sync_bfs_loop"
        /\ result.iterations < MaxIterations
        /\ result' = [result EXCEPT !.front = new_front, !.visited = visited,
                                    !.iterations = @ + 1]
        /\ op' = IF Cardinality(result.visited) = Cardinality(visited)
                 THEN "sync_bfs_exit" ELSE "sync_bfs_loop"
        /\ UNCHANGED <<graph, query, cfg, ord, args>>

(* the code after the loop *)
SyncBfsReturn ==
    /\ op = "sync_bfs_exit"
    /\ op' = "sync_bfs_return"
    /\ result' = [result EXCEPT
                    !.status = "ok",
                    !.value = sync_bfs_result(nfa_bool_mtx(args.start, args.final),
                                  query_bool_mtx,
                                  args.algorithm = FIND_REACHABLE_FOR_EACH_START_NODE,
                                  ord, result.visited, result.init_front)]
    /\ UNCHANGED <<graph, query, cfg, ord, args>>

NextSyncBfs ==
    \/ \E mode \in RpqMode, S \in NodeSets(graph), F \in NodeSets(graph) : SyncBfsEnter(mode, S, F)
    \/ SyncBfsIteration
    \/ SyncBfsReturn

SpecSyncBfs == InitRpq /\ [][NextSyncBfs]_vars

(* the loop alone: the final nodes play no part in it and are left absent; *)
(* once entered, the loop is run to its end                                *)
NextSyncBfsLoop ==
    \/ \E mode \in RpqMode, S \in NodeSets(graph) : SyncBfsEnter(mode, S, None)
    \/ SyncBfsIteration
    \/ SyncBfsReturn

InitSyncBfsLoop == InitRpq /\ ord = "asc"

SpecSyncBfsFair ==
    /\ InitSyncBfsLoop
    /\ [][NextSyncBfsLoop]_vars
    /\ WF_vars(SyncBfsIteration)
    /\ WF_vars(SyncBfsReturn)

(* the stepwise run returns what sync_bfs returns *)
SyncBfsStepsAgree ==
    op = "sync_bfs_return" =>
        result.value = rpq_bfs(graph, query.regex, args.algorithm, args.start, args.final, ord)

(* C21: at the start of every iteration of the loop of sync_bfs, a row of  *)
(* the front with a set graph-side cell has its query-state identity cell  *)
(* set and no other query-side cell.                                       *)
C21_FrontRowsHaveIdentity ==
    op = "sync_bfs_loop" =>
        LET m == Size(query_bool_mtx)
        IN  \A c \in result.front :
                c[2] >= m =>
                    /\ <<c[1], c[1] % m>> \in result.front
                    /\ \A d \in result.front :
                           (d[1] = c[1] /\ d[2] < m) => d[2] = c[1] % m

(* C22: in sync_bfs visited never loses a set cell from one iteration to   *)
(* the next, the front kept for the next iteration has no cell that was    *)
(* visited before the iteration, the loop exits at the first iteration     *)
(* that adds no cell to visited, and it exits after finitely many          *)
(* iterations.                                                             *)
C22_LoopGrowsAndExits ==
    /\ [][op = "sync_bfs_loop" =>
            /\ result.visited \subseteq result'.visited
            /\ result'.front \cap result.visited = {}
            /\ (op' = "sync_bfs_exit") <=> (result'.visited = result.visited)
            /\ op' \in {"sync_bfs_loop", "sync_bfs_exit"}]_vars
    /\ (op = "sync_bfs_loop") ~> (op = "sync_bfs_exit")

(* the loop has left after three or more iterations, the last adding none *)
C22_Witness ==
    /\ op = "sync_bfs_exit"
    /\ result.iterations >= 3
    /\ result.front = {}
    /\ result.visited # result.init_front

(* C23: rpq_bfs is sound.  Every pair (u, v) returned in the mode          *)
(* FIND_REACHABLE_FOR_EACH_START_NODE has u in S, v in F and a path from u *)
(* to v spelling a word of L(Q); every node v returned in the mode         *)
(* FIND_ALL_REACHABLE is in F and has such a path from some u in S; a      *)
(* graph state is reported only from a cell of visited that is not in the  *)
(* initial front and whose row is a final state of the query.              *)
C23_BfsSound ==
    op = "sync_bfs_return" =>
        LET pairs == RegularPairs(graph, query.regex, args.start, args.final)
            self  == nfa_bool_mtx(args.start, args.final)
            other == query_bool_mtx
            m     == Size(other)
            reported(v) ==
                \E c \in result.visited \ result.init_front :
                    /\ c[2] = m + self.state_to_index[v]
                    /\ IndexToState(other)[c[1] % m] \in other.final_states
        IN  IF args.algorithm = FIND_REACHABLE_FOR_EACH_START_NODE
            THEN /\ result.value \subseteq pairs
                 /\ \A p \in result.value : reported(p[2])
            ELSE /\ result.value \subseteq { p[2] : p \in pairs }
                 /\ \A v \in result.value : reported(v)

(* pairs are returned for chosen sources and targets, after a search of    *)
(* two or more steps through a query with a state that is not final        *)
C23_Witness ==
    /\ op = "sync_bfs_return"
    /\ args.algorithm = FIND_REACHABLE_FOR_EACH_START_NODE
    /\ args.start # None
    /\ args.final # None
    /\ query.regex = "a b"
    /\ result.iterations >= 3
    /\ result.value # {}

(***************************************************************************)
(* The loops of the CFPQ solvers step by step.  While a loop runs, result  *)
(* holds its locals.  The grammars are those of the inputs and one whose   *)
(* start symbol is nullable without an empty production of its own.        *)
(***************************************************************************)
SolverInputs == Inputs \cup {[grammar |-> "nulls", regex |-> "$", equivalent |-> FALSE]}

InitSolvers ==
    /\ graph \in GraphsUpTo(CfpqLabels, MaxNodes, MaxEdges)
    /\ \E i \in SolverInputs : query = i /\ cfg = Grammar(i.grammar)
    /\ ord \in Orders
    /\ op = "init"
    /\ args = NoArgs
    /\ result = Ok({})

(* a set listed in one of its two iteration orders *)
Reverse(q) == [k \in 1 .. Len(q) |-> q[Len(q) + 1 - k]]

ListOf(S, o) == IF o = "asc" THEN SetToSeq(S) ELSE Reverse(SetToSeq(S))

(* _run_hellings_algorithm up to its loop *)
HellingsEnter ==
    /\ op = "init"
    /\ IF Cardinality(graph.nodes) = 0
       THEN /\ op' = "hellings_return"
            /\ result' = [status |-> "ok", value |-> {}, res |-> {}, result_deque |-> <<>>]
       ELSE /\ op' = "hellings_loop"
            /\ result' = [status |-> "loop", value |-> {},
                          res |-> hellings_seed(cfg, graph),
                          result_deque |-> ListOf(hellings_seed(cfg, graph), ord)]
    /\ args' = [algorithm |-> HELLINGS, start |-> None, final |-> None, symbol |-> ""]
    /\ UNCHANGED <<graph, query, cfg, ord>>

(* one pass of "while result_deque": popleft, the scan of result, and      *)
(* "result |= to_add"                                                      *)
HellingsPop ==
    /\ op = "hellings_loop"
    /\ result.result_deque # <<>>
    /\ LET two == convert_wcnf_prods(cfg_to_weak_chomsky_normal_form(cfg).productions).two_nonterm_prods
           appended == hellings_scan(ListOf(result.res, ord), Head(result.result_deque),
                                     result.res, two)
       IN  result' = [result EXCEPT !.res = @ \cup SeqRange(appended),
                                    !.result_deque = Tail(@) \o appended]
    /\ UNCHANGED <<graph, query, cfg, ord, op, args>>

(* the loop ends on the empty deque *)
HellingsReturn ==
    /\ op = "hellings_loop"
    /\ result.result_deque = <<>>
    /\ op' = "hellings_return"
    /\ result' = [result EXCEPT !.status = "ok", !.value = result.res]
    /\ UNCHANGED <<graph, query, cfg, ord, args>>

NextHellings == HellingsEnter \/ HellingsPop \/ HellingsReturn

SpecHellings == InitSolvers /\ [][NextHellings]_vars

(* the stepwise run returns what _run_hellings_algorithm returns *)
HellingsStepsAgree ==
    op = "hellings_return" => result.value = run_hellings_algorithm(cfg, graph).value

(* the least relation of a WCNF grammar on a graph: (u, A, u) for nullable *)
(* A, (u, A, v) for an edge u -a-> v and A -> a, closed under X -> B C     *)
RECURSIVE ClosedUnder(_, _)
ClosedUnder(R, prods) ==
    LET R2 == R \cup { <<x[1][1], x[2][1], x[1][2]>> :
                         x \in { y \in (UNION { { <<r[1], s[3], r[2], s[2]>> :
                                                    s \in {t \in R : t[1] = r[3]} } : r \in R })
                                       \X prods :
                                   y[2][2] = <<y[1][3], y[1][4]>> } }
    IN  IF R2 = R THEN R ELSE ClosedUnder(R2, prods)

LeastRelation(g, wcnf) ==
    ClosedUnder({ <<u, A, u>> : u \in g.nodes, A \in get_nullable_symbols(wcnf) }
                \cup { <<e[1], p[1], e[3]>> :
                         <<e, p>> \in { x \in g.edges \X wcnf.productions :
                                          x[2][2] = <<x[1][2]>> } },
                wcnf.productions)

(* C24: when _run_hellings_algorithm halts, its relation is the least set  *)
(* that has (u, A, u) for every node u and nullable A, (u, A, v) for every *)
(* edge u -a-> v and production A -> a, and is closed under the binary     *)
(* productions, whatever the order in which the triples were popped.       *)
C24_HellingsLeastRelation ==
    op = "hellings_return" =>
        result.value = LeastRelation(graph, cfg_to_weak_chomsky_normal_form(cfg))

(* the relation of a grammar with binary productions grew in the loop and  *)
(* holds a triple that joins two nodes through a binary production         *)
C24_Witness ==
    /\ op = "hellings_return"
    /\ query.grammar = "anbn"
    /\ hellings_seed(cfg, graph) # result.value
    /\ \E t \in result.value : t[2] = "S" /\ t[1] # t[3]

(* _run_matrix_algorithm up to its loop *)
MatrixEnter ==
    /\ op = "init"
    /\ IF Cardinality(graph.nodes) = 0
       THEN /\ op' = "matrix_return"
            /\ result' = [status |-> "ok", value |-> {}, nonterm_to_mtx |-> <<>>, sweeps |-> 0]
       ELSE /\ op' = "matrix_loop"
            /\ result' = [status |-> "loop", value |-> {},
                          nonterm_to_mtx |-> matrix_init(cfg, graph), sweeps |-> 0]
    /\ args' = [algorithm |-> MATRIX, start |-> None, final |-> None, symbol |-> ""]
    /\ UNCHANGED <<graph, query, cfg, ord>>

(* one pass of "while True": the sweep over two_nonterm_prods and the test *)
(* of changed                                                              *)
MatrixSweep ==
    LET two == convert_wcnf_prods(cfg_to_weak_chomsky_normal_form(cfg).productions).two_nonterm_prods
        M   == result.nonterm_to_mtx
        M2  == matrix_sweep(M, ListOf(Heads(two), ord), two)
        changed == \E h \in Heads(two) : Cardinality(M2[h]) # Cardinality(M[h])
    IN  /\ op = "matrix_loop"
        /\ result.sweeps < MaxIterations
        /\ result' = [result EXCEPT !.nonterm_to_mtx = M2, !.sweeps = @ + 1]
        /\ op' = IF changed THEN "matrix_loop" ELSE "matrix_exit"
        /\ UNCHANGED <<graph, query, cfg, ord, args>>

(* the code after the loop *)
MatrixReturn ==
    /\ op = "matrix_exit"
    /\ op' = "matrix_return"
    /\ result' = [result EXCEPT
                    !.status = "ok",
                    !.value = UNION { { <<cell[1], nonterm, cell[2]>> :
                                          cell \in result.nonterm_to_mtx[nonterm] } :
                                      nonterm \in DOMAIN result.nonterm_to_mtx }]
    /\ UNCHANGED <<graph, query, cfg, ord, args>>

NextMatrix == MatrixEnter \/ MatrixSweep \/ MatrixReturn

SpecMatrix == InitSolvers /\ [][NextMatrix]_vars

(* the stepwise run returns what _run_matrix_algorithm returns *)
MatrixStepsAgree ==
    op = "matrix_return" => result.value = run_matrix_algorithm(cfg, graph).value

(* C26: when _run_matrix_algorithm returns, for every binary production    *)
(* A -> B C of the WCNF grammar, M[A][u,v] is set whenever M[B][u,w] and    *)
(* M[C][w,v] are; every nullable A has its whole diagonal set, every edge  *)
(* u -a-> v with A -> a has M[A][u,v] set; no cell is cleared during the   *)
(* run.                                                                    *)
C26_MatrixFixedPoint ==
    /\ [](op = "matrix_return" /\ graph.nodes # {} =>
            LET wcnf == cfg_to_weak_chomsky_normal_form(cfg)
                M    == result.nonterm_to_mtx
            IN  /\ \A p \in { q \in wcnf.productions : Len(q[2]) = 2 } :
                       \A x \in M[p[2][1]], y \in M[p[2][2]] :
                           x[2] = y[1] => <<x[1], y[2]>> \in M[p[1]]
                /\ \A A \in get_nullable_symbols(wcnf), u \in graph.nodes : <<u, u>> \in M[A]
                /\ \A e \in graph.edges, q \in wcnf.productions :
                       q[2] = <<e[2]>> => <<e[1], e[3]>> \in M[q[1]])
    /\ [][op = "matrix_loop" =>
            \A A \in DOMAIN result.nonterm_to_mtx :
                result.nonterm_to_mtx[A] \subseteq result'.nonterm_to_mtx[A]]_vars

(* the run took three or more sweeps and filled a cell of the start symbol *)
(* through a binary production                                             *)
C26_Witness ==
    /\ op = "matrix_return"
    /\ result.sweeps >= 3
    /\ \E c \in result.nonterm_to_mtx["S"] : c \notin matrix_init(cfg, graph)["S"]

(* the two bundles of _run_tensor_algorithm, for a graph whose nodes cfpq  *)
(* has marked                                                              *)
cfg_bool_matrix == from_rsm(ECFG_to_rsm(ECFG_from_cfg(cfg)), ord)

graph_bool_matrix == from_nfa(from_networkx(cfpq_graph(graph, None, None)), ord)

(* _run_tensor_algorithm up to its loop; added counts the bits the last    *)
(* pass has set                                                            *)
TensorEnter ==
    LET nullable == get_nullable_symbols(cfg)
        n        == Size(graph_bool_matrix)
    IN  /\ op = "init"
        /\ IF \E nonterm \in nullable : nonterm \notin DOMAIN graph_bool_matrix.bool_matrices
           THEN /\ op' = "tensor_return"
                /\ result' = [status |-> "KeyError", value |-> {}, matrices |-> <<>>,
                              last_tc_sz |-> 0, passes |-> 0, added |-> 0]
           ELSE /\ op' = "tensor_loop"
                /\ result' = [status |-> "loop", value |-> {},
                              matrices |-> [l \in DOMAIN graph_bool_matrix.bool_matrices |->
                                  graph_bool_matrix.bool_matrices[l]
                                  \cup (IF l \in nullable
                                        THEN { <<i, i>> : i \in 0 .. (n - 1) } ELSE {})],
                              last_tc_sz |-> 0, passes |-> 0, added |-> 0]
        /\ args' = [algorithm |-> TENSOR, start |-> None, final |-> None, symbol |-> ""]
        /\ UNCHANGED <<graph, query, cfg, ord>>

(* one pass of "while True": intersect, close, test the size of the        *)
(* closure, set the bits                                                   *)
TensorPass ==
    LET n    == Size(graph_bool_matrix)
        pass == tensor_hits(cfg_bool_matrix, result.matrices, graph_bool_matrix, n)
        matrices == [l \in DOMAIN result.matrices |->
                        result.matrices[l]
                        \cup { <<h[2], h[3]>> : h \in {x \in pass.hits : x[1] = l} }]
    IN  /\ op = "tensor_loop"
        /\ result.passes < MaxIterations
        /\ IF pass.size = result.last_tc_sz
           THEN /\ op' = "tensor_exit"
                /\ result' = [result EXCEPT !.passes = @ + 1, !.added = 0]
           ELSE IF \E h \in pass.hits : h[1] \notin DOMAIN result.matrices
           THEN /\ op' = "tensor_return"
                /\ result' = [result EXCEPT !.status = "KeyError", !.passes = @ + 1]
           ELSE /\ op' = "tensor_loop"
                /\ result' = [result EXCEPT
                                !.matrices = matrices,
                                !.last_tc_sz = pass.size,
                                !.passes = @ + 1,
                                !.added = Cardinality(UNION { { <<l, c>> : c \in matrices[l] \ result.matrices[l] } :
                                                               l \in DOMAIN matrices })]
        /\ UNCHANGED <<graph, query, cfg, ord, args>>

(* the code after the loop *)
TensorReturn ==
    LET graph_index_to_state == IndexToState(graph_bool_matrix)
    IN  /\ op = "tensor_exit"
        /\ op' = "tensor_return"
        /\ result' = [result EXCEPT
                        !.status = "ok",
                        !.value = UNION { { <<graph_index_to_state[cell[1]], nonterm,
                                              graph_index_to_state[cell[2]]>> :
                                              cell \in result.matrices[nonterm] } :
                                          nonterm \in DOMAIN result.matrices }]
        /\ UNCHANGED <<graph, query, cfg, ord, args>>

NextTensor == TensorEnter \/ TensorPass \/ TensorReturn

SpecTensor == InitSolvers /\ [][NextTensor]_vars

(* the stepwise run ends as _run_tensor_algorithm does *)
TensorStepsAgree ==
    op = "tensor_return" =>
        LET run == run_tensor_algorithm(cfg, cfpq_graph(graph, None, None), ord)
        IN  result.status = run.status /\ (run.status = "ok" => result.value = run.value)

(* the nonzero cells of the closure of the intersection a pass computes *)
TensorClosure ==
    nonzero(get_transitive_closure(
        And(cfg_bool_matrix, [graph_bool_matrix EXCEPT !.bool_matrices = result.matrices])))

InitSolverLoops == InitSolvers /\ ord = "asc"

NextSolverLoops ==
    \/ HellingsEnter \/ HellingsPop \/ HellingsReturn
    \/ MatrixEnter \/ MatrixSweep \/ MatrixReturn
    \/ TensorEnter \/ TensorPass \/ TensorReturn

(* one turn of a solver's while loop, and the guard under which the code  *)
(* takes it                                                               *)
SolverLoopStep == HellingsPop \/ MatrixSweep \/ TensorPass

SolverLoopGuard ==
    \/ op = "hellings_loop" /\ result.result_deque # <<>>
    \/ op = "matrix_loop" /\ result.sweeps < MaxIterations
    \/ op = "tensor_loop" /\ result.passes < MaxIterations

(* the code after a solver's loop *)
SolverReturn == HellingsReturn \/ MatrixReturn \/ TensorReturn

(* a running solver is not suspended: weak fairness of its steps.  For    *)
(* the loop steps it is written out, WF_vars(SolverLoopStep) with the     *)
(* enabling condition given by SolverLoopGuard.                           *)
SolverLoopFairness == []<>(~SolverLoopGuard) \/ []<><<SolverLoopStep>>_vars

SpecSolverLoopsFair ==
    InitSolverLoops /\ [][NextSolverLoops]_vars /\ WF_vars(SolverReturn) /\ SolverLoopFairness

(* C25: each CFPQ solver loop ends.  The Hellings worklist empties: the    *)
(* relation only grows and a triple the relation holds is never enqueued   *)
(* again; the Matrix loop exits at the first sweep that changes no matrix; *)
(* the Tensor loop exits.                                                  *)
C25_SolverLoopsEnd ==
    /\ [][op = "hellings_loop" /\ op' = "hellings_loop" =>
            /\ result.res \subseteq result'.res
            /\ \A k \in Len(result.result_deque) .. Len(result'.result_deque) :
                   result'.result_deque[k] \notin result.res]_vars
    /\ [][op = "matrix_loop" =>
            ((op' = "matrix_exit") <=> (result'.nonterm_to_mtx = result.nonterm_to_mtx))]_vars
    /\ (op \in {"hellings_loop", "matrix_loop", "tensor_loop"})
           ~> (op \in {"hellings_return", "matrix_return", "tensor_return"})

(* a worklist that took in new triples has emptied *)
C25_Witness ==
    /\ op = "hellings_return"
    /\ query.grammar = "dyck"
    /\ Cardinality(result.res) >= Cardinality(hellings_seed(cfg, graph)) + 3

(***************************************************************************)
(* BooleanMatrix._direct_sum on the bundles of two graph automata.  The    *)
(* nodes of a graph are 0 .. n-1, so two bundles that both have states     *)
(* share the state 0.  args keeps the two operands, result the sum.        *)
(***************************************************************************)
OtherBundle(other_graph) == from_nfa(graph_to_epsilon_nfa(other_graph, None, None), ord)

DirectSum(other_graph) ==
    /\ op = "init"
    /\ op' = "direct_sum"
    /\ args' = [self |-> GraphBundle, other |-> OtherBundle(other_graph)]
    /\ result' = Ok(direct_sum(GraphBundle, OtherBundle(other_graph)))
    /\ UNCHANGED <<graph, query, cfg, ord>>

NextDirectSum == \E other_graph \in GraphsUpTo(RpqLabels, MaxNodes, MaxEdges) : DirectSum(other_graph)

SpecDirectSum == InitBundle /\ [][NextDirectSum]_vars

(* C28: _direct_sum(A, B) has a state map of |A| + |B| entries that sends  *)
(* every state a of A to idx_A(a) and every state b of B to                *)
(* |A| + idx_B(b), also when A and B share state values; the matrix of a   *)
(* shared symbol is A's matrix in the upper-left block, B's in the         *)
(* lower-right block, and has no cell in the off-diagonal blocks.          *)
C28_DirectSumShiftsOther ==
    op = "direct_sum" =>
        LET A == args.self
            B == args.other
            sum == result.value
        IN  /\ Size(sum) = Size(A) + Size(B)
            /\ \A a \in DOMAIN A.state_to_index :
                   /\ a \in DOMAIN sum.state_to_index
                   /\ sum.state_to_index[a] = A.state_to_index[a]
            /\ \A b \in DOMAIN B.state_to_index :
                   /\ b \in DOMAIN sum.state_to_index
                   /\ sum.state_to_index[b] = Size(A) + B.state_to_index[b]
            /\ DOMAIN sum.bool_matrices = (DOMAIN A.bool_matrices) \cap (DOMAIN B.bool_matrices)
            /\ \A label \in DOMAIN sum.bool_matrices :
                   /\ {c \in sum.bool_matrices[label] : c[1] < Size(A) /\ c[2] < Size(A)}
                          = A.bool_matrices[label]
                   /\ {<<c[1] - Size(A), c[2] - Size(A)>> :
                           c \in {d \in sum.bool_matrices[label] : d[1] >= Size(A) /\ d[2] >= Size(A)}}
                          = B.bool_matrices[label]
                   /\ \A c \in sum.bool_matrices[label] : (c[1] < Size(A)) <=> (c[2] < Size(A))

(* the matrices alone are block-diagonal; it is the state map that fails *)
C28_BlocksOnly ==
    op = "direct_sum" =>
        LET A == args.self
            B == args.other
            sum == result.value
        IN  /\ DOMAIN sum.bool_matrices = (DOMAIN A.bool_matrices) \cap (DOMAIN B.bool_matrices)
            /\ \A label \in DOMAIN sum.bool_matrices :
                   /\ {c \in sum.bool_matrices[label] : c[1] < Size(A) /\ c[2] < Size(A)}
                          = A.bool_matrices[label]
                   /\ \A c \in sum.bool_matrices[label] : (c[1] < Size(A)) <=> (c[2] < Size(A))

(* C29: a call of cfpq leaves its graph and grammar arguments unchanged:   *)
(* the node attributes of the graph and the start symbol of the grammar    *)
(* object are after the call what they were before it.                     *)
C29_CfpqLeavesArguments ==
    [][op' = "cfpq" =>
          /\ graph'.is_start = graph.is_start
          /\ graph'.is_final = graph.is_final
          /\ cfg'.start_symbol = cfg.start_symbol]_vars

(***************************************************************************)
(* BooleanMatrix.get_transitive_closure step by step.  result holds the    *)
(* locals transitive_closure (cells and shape), prev_nnz (None is -1) and  *)
(* cur_nnz, the number of passes of the while loop made so far, and the    *)
(* bundle's own bool_matrices as they are at that point.                   *)
(***************************************************************************)

(* the code before the loop without "if not cur_nnz: return": the loop is *)
(* entered with an empty sum                                              *)
closure_enter_no_check(bm) ==
    LET transitive_closure == MatSum(bm)
    IN  [transitive_closure |-> transitive_closure,
         shape         |-> <<Size(bm), Size(bm)>>,
         prev_nnz      |-> -1,
         cur_nnz       |-> nnz(transitive_closure),
         returned      |-> FALSE,
         iterations    |-> 0,
         bool_matrices |-> bm.bool_matrices]

(* the code before the loop *)
closure_enter(bm) ==
    LET transitive_closure == MatSum(bm)
    IN  [transitive_closure |-> transitive_closure,
         shape         |-> <<Size(bm), Size(bm)>>,
         prev_nnz      |-> -1,
         cur_nnz       |-> nnz(transitive_closure),
         returned      |-> nnz(transitive_closure) = 0,
         iterations    |-> 0,
         bool_matrices |-> bm.bool_matrices]

ClosureEnter ==
    /\ op = "init"
    /\ result' = closure_enter(GraphBundle)
    /\ op' = IF result'.returned THEN "closure_return" ELSE "closure_loop"
    /\ UNCHANGED <<graph, query, cfg, ord, args>>

(* one pass of "while prev_nnz != cur_nnz" *)
ClosureIteration ==
    /\ op = "closure_loop"
    /\ result.prev_nnz # result.cur_nnz
    /\ result.iterations < MaxIterations
    /\ result' = [result EXCEPT
                    !.transitive_closure = MatStep(@),
                    !.prev_nnz = result.cur_nnz,
                    !.cur_nnz = nnz(MatStep(result.transitive_closure)),
                    !.iterations = @ + 1]
    /\ UNCHANGED <<graph, query, cfg, ord, op, args>>

(* the loop condition fails: return transitive_closure *)
ClosureReturn ==
    /\ op = "closure_loop"
    /\ result.prev_nnz = result.cur_nnz
    /\ op' = "closure_return"
    /\ result' = [result EXCEPT !.returned = TRUE]
    /\ UNCHANGED <<graph, query, cfg, ord, args>>

NextClosureLoop == ClosureEnter \/ ClosureIteration \/ ClosureReturn

(* a running call is not suspended: weak fairness of its steps.  For the  *)
(* loop pass it is written out, WF_vars(ClosureIteration) with the        *)
(* enabling condition given by the guard of the pass.                     *)
ClosureLoopFairness ==
    \/ []<>(~(op = "closure_loop" /\ result.prev_nnz # result.cur_nnz
                                  /\ result.iterations < MaxIterations))
    \/ []<><<ClosureIteration>>_vars

SpecClosureLoopFair ==
    InitBundle /\ [][NextClosureLoop]_vars /\ WF_vars(ClosureReturn) /\ ClosureLoopFairness

(* the steps return what get_transitive_closure returns *)
ClosureStepsAgree ==
    op = "closure_return" => result.transitive_closure = get_transitive_closure(GraphBundle)

(* C30: get_transitive_closure ends for every bundle; for a bundle of n    *)
(* states it makes at most n passes of M <- M + M*M; when the sum of the   *)
(* symbol matrices is empty (the bundle without states included) it makes  *)
(* no pass and returns the n x n zero matrix; the bundle's own matrices    *)
(* stay as they were.                                                      *)
C30_ClosureTerminates ==
    /\ [](op \in {"closure_loop", "closure_return"} =>
            /\ result.iterations <= Size(GraphBundle)
            /\ result.bool_matrices = GraphBundle.bool_matrices
            /\ (MatSum(GraphBundle) = <<>> =>
                    /\ op = "closure_return"
                    /\ result.iterations = 0
                    /\ result.transitive_closure = <<>>
                    /\ result.shape = <<Size(GraphBundle), Size(GraphBundle)>>))
    /\ (op = "closure_loop") ~> (op = "closure_return")

(* a call on a bundle of two or more states that returned after as many   *)
(* passes as it has states                                                *)
C30_Witness ==
    /\ op = "closure_return"
    /\ Size(GraphBundle) >= 2
    /\ result.iterations = Size(GraphBundle)

(* a call on a bundle with states and an empty sum that returned *)
C30_WitnessEmptySum ==
    /\ op = "closure_return"
    /\ Size(GraphBundle) > 0
    /\ MatSum(GraphBundle) = <<>>
====
